---- MODULE Spec2Model ----
(***************************************************************************)
(* traefik-cloud-saver: a model of the Token Manager (cloud/gcp/auth.go),  *)
(* of the compute client's stop-and-wait protocol and the real cloud       *)
(* service's ScaleDown (cloud/gcp/compute.go, cloud/gcp/service.go), and   *)
(* of the orchestration loop (cloudsaver.go).                              *)
(*                                                                         *)
(* Each component has its own specification: SpecToken, SpecStop and       *)
(* SpecLoop (FairStop adds the fairness of the Go scheduler and of the     *)
(* passage of time to SpecStop; SpecReprovide is the loop of a provider    *)
(* whose Provide is called again).  SpecMetrics is the metrics collector   *)
(* (metrics.go) and SpecMock the mock cloud service                        *)
(* (cloud/mock/service.go); SpecMockSet adds the test helper SetScale.     *)
(* SpecSvc is the construction of a cloud service and the scale queries    *)
(* of the real one, SpecProv the construction of the provider, SpecScrape  *)
(* the scan of a metrics body, SpecRates the loop fed by the collector.     *)
(* The variables of the other components stay at their initial values.     *)
(***************************************************************************)
EXTENDS Integers, Sequences, FiniteSets, TLC

VARIABLES
    \* ---- Token Manager (auth.go) ----
    tmToken,      \* tm.currentToken: NoToken (nil) or the cached access token
    tmExpiresAt,  \* tm.expiresAt
    mu,           \* tm.mu: 0 when free, else the caller holding it
    tpc,          \* per caller: the place in GetToken / fetchToken
    tret,         \* per caller: what its last GetToken returned
    fetchResp,    \* the decoded tokenResp of the caller inside fetchToken
    stores,       \* the stores of fetchToken (lines 125-126) not yet visible to unlocked readers
    tokReqs,      \* number of requests the token endpoint has received
    tokFails,     \* number of exchanges that failed
    issued,       \* the tokens the endpoint issued, in order, with their expiry
    calls,        \* number of GetToken calls started
    startExpired, \* whether the cache was expired (or empty) at the start
    tnow,         \* the clock read by time.Now() in auth.go
    oldExpiresAt, \* the expiry of the token cached at the start
    tchk,         \* per caller: when its unlocked check read the clock (0: not yet)
    staleHandout, \* some GetToken returned a cached token expired at its check
    answer,       \* the last answer of the token endpoint that fetchToken handled
    \* ---- real cloud service and compute client (service.go, compute.go) ----
    sdPc,           \* the place of the ScaleDown call in progress
    sdErr,          \* the error ScaleDown returned (NoErr: nil)
    sdCalls,        \* number of ScaleDown calls started
    callerCtx,      \* the caller's context: "none", or its Err() once done
    callerDeadline, \* the caller's deadline (0: none)
    waitCtx,        \* the context of waitForOperation (compute.go:202)
    waitDeadline,   \* its deadline
    tickReady,      \* a tick is buffered in ticker.C (compute.go:205)
    nextTickAt,     \* when the ticker fires next
    cfgTimeout,     \* c.timeout
    cfgPoll,        \* c.pollInterval
    firstStatus,    \* the instance status ScaleDown fetched first ("" before)
    finalStatus,    \* the instance status StopInstance fetched last ("" before)
    waitEnd,        \* how waitForOperation returned ("" before)
    stopResult,     \* what StopInstance returned: "", "ok" or "err"
    stopSent,       \* stop requests sent by the current call
    pollsSent,      \* operation-status requests sent by the current call
    snow,           \* time since the current ScaleDown call started
    lastReq,        \* the last request doRequest put on the wire in this call
    reqsSent,       \* number of compute requests put on the wire in this call
    tokensGot,      \* number of tokens doRequest obtained from GetToken in this call
    lastResp,       \* the last response doRequest received in this call
    \* ---- orchestration loop (cloudsaver.go) ----
    threshold,     \* p.trafficThreshold
    routerFilter,  \* p.routerFilter: [present, names]
    providesLimit, \* how many times the host calls Provide
    envServices,   \* the services the metrics endpoint can report
    provided,      \* number of Provide calls so far; call w started worker w
    pCancel,       \* p.cancel: 0 (nil) or the worker whose context it cancels
    wctx,          \* per worker: its context is cancelled
    wpc,           \* per worker: the place in loadConfiguration
    wTick,         \* per worker: a tick is buffered in ticker.C
    rates,         \* per worker: the rates of the tick in progress
    todo,          \* per worker: the services the range loop has not reached
    cur,           \* per worker: the service whose ScaleDown is running
    s2r,           \* per worker: serviceToRouter
    scaled,        \* per worker: the services ScaleDown was invoked for, in order
    failed,        \* per worker: the services whose ScaleDown returned an error
    looked,        \* per worker: the last service looked up and the proxy's answer
    scaledIds,     \* per worker: the identifiers ScaleDown was invoked with, in order
    panicked,      \* per worker: a panic was recovered (cloudsaver.go Provide)
    ticks,         \* number of ticks taken from a ticker
    delivered,     \* number of snapshots the host received
    cloudOps,      \* the methods of p.cloudService the loop has invoked
    \* ---- metrics collector (metrics.go) ----
    lastCounts,   \* mc.lastCounts: the baseline, service -> cumulative total
    lastTime,     \* mc.lastTime
    mnow,         \* the clock read by time.Now() in metrics.go
    fetched,      \* the counts of the newest scrape that succeeded
    mRates,       \* the rate map the last GetServiceRates returned (empty: nil)
    mErr,         \* whether the last GetServiceRates returned an error
    prevCounts,   \* the baseline the last call started with
    prevTime,     \* the baseline time the last call started with
    mCalls,       \* number of GetServiceRates calls
    \* ---- mock cloud service (cloud/mock/service.go) ----
    scale,        \* s.scale: resource -> scale
    initialScale, \* s.config.InitialScale
    seed,         \* the scale the resource was seeded with
    mmu,          \* s.mu: 0 when free, else the goroutine holding it
    opCount,      \* s.opCount
    failAfter,    \* s.failAfter
    scaleErr,     \* s.scaleErr is set
    resetAfter,   \* s.resetAfter
    resetFired,   \* the reset timer has run Reset
    mpc,          \* per worker: the place in its ScaleUp / ScaleDown pair
    mcur,         \* per worker: the scale it read under the lock
    mop,          \* per worker: the opCount it loaded in checkFailure
    mfail,        \* per worker: the calls of it that returned an error
    rpc,          \* the place of the reset timer's goroutine
    passed,       \* the workers whose ScaleDown checkFailure let through
    injected,     \* the workers whose ScaleDown checkFailure failed
    \* ---- construction and API of the cloud service (cloud/service.go, gcp/service.go) ----
    cloudCfg,     \* the *common.CloudServiceConfig handed to the constructor
    ctor,         \* the constructor that was called ("" before)
    built,        \* the service the constructor returned (kind "none": nil)
    buildErr,     \* the error the constructor returned ("" for nil)
    apiCall,      \* the last method called on the real service ("" before)
    apiCalls,     \* number of calls of its methods
    apiStatus,    \* the instance status GetCurrentScale fetched
    apiScale,     \* the scale GetCurrentScale returned
    apiErr,       \* the error the last method returned ("" for nil)
    apiSent,      \* compute requests the last method sent
    \* ---- construction of the provider (cloudsaver.go New, Init) ----
    provCfg,      \* the *Config handed to New
    prov,         \* "none", "constructed", "rejectedNew", "ready" or "rejectedInit"
    provErr,      \* the error the last of New and Init returned ("" for nil)
    provWorkers,  \* number of worker goroutines started from this provider
    \* ---- the scrape (metrics.go fetchServiceRequests, parseMetricLine) ----
    scrapeBody,    \* the lines of the response body
    scanPos,       \* number of lines the scanner has handed out
    serviceCounts, \* serviceCounts
    lastParse      \* what parseMetricLine returned for the last line

tokenVars == <<tmToken, tmExpiresAt, mu, tpc, tret, fetchResp, stores,
               tokReqs, tokFails, issued, calls, startExpired, tnow,
               oldExpiresAt, tchk, staleHandout, answer>>

stopVars == <<sdPc, sdErr, sdCalls, callerCtx, callerDeadline, waitCtx, waitDeadline,
              tickReady, nextTickAt, cfgTimeout, cfgPoll, firstStatus, finalStatus,
              waitEnd, stopResult, stopSent, pollsSent, snow,
              lastReq, reqsSent, tokensGot, lastResp>>

loopVars == <<threshold, routerFilter, providesLimit, envServices, provided, pCancel,
              wctx, wpc, wTick, rates, todo, cur, s2r, scaled, failed, looked,
              scaledIds, panicked, ticks, delivered, cloudOps>>

metricsVars == <<lastCounts, lastTime, mnow, fetched, mRates, mErr, prevCounts,
                 prevTime, mCalls>>

mockVars == <<scale, initialScale, seed, mmu, opCount, failAfter, scaleErr,
              resetAfter, resetFired, mpc, mcur, mop, mfail, rpc, passed, injected>>

svcVars == <<cloudCfg, ctor, built, buildErr, apiCall, apiCalls, apiStatus, apiScale,
             apiErr, apiSent>>

provVars == <<provCfg, prov, provErr, provWorkers>>

scrapeVars == <<scrapeBody, scanPos, serviceCounts, lastParse>>

nonTokenVars == <<stopVars, loopVars, metricsVars, mockVars, svcVars, provVars, scrapeVars>>
nonStopVars == <<tokenVars, loopVars, metricsVars, mockVars, svcVars, provVars, scrapeVars>>
nonLoopVars == <<tokenVars, stopVars, metricsVars, mockVars, svcVars, provVars, scrapeVars>>
nonMetricsVars == <<tokenVars, stopVars, loopVars, mockVars, svcVars, provVars, scrapeVars>>
nonMockVars == <<tokenVars, stopVars, loopVars, metricsVars, svcVars, provVars, scrapeVars>>
nonSvcVars == <<tokenVars, stopVars, loopVars, metricsVars, mockVars, provVars, scrapeVars>>
nonProvVars == <<tokenVars, stopVars, loopVars, metricsVars, mockVars, svcVars, scrapeVars>>
nonScrapeVars == <<tokenVars, stopVars, loopVars, metricsVars, mockVars, svcVars, provVars>>

vars == <<tokenVars, stopVars, loopVars, metricsVars, mockVars, svcVars, provVars,
          scrapeVars>>

\* ------------------------------------------------------------------ bounds
NumCallers == 2
MaxCalls == 3
MaxTokenClock == 3
MaxExpiresIn == 2
MaxScaleDowns == 2
MaxTimeout == 3
MaxPoll == 2
MaxCallerDeadline == 2
MaxWorkers == 2
MaxTicks == 2
MaxThreshold == 1
MaxCount == 2
MaxMetricsClock == 4
MaxSeed == 2
MaxMockWorkers == 2
MaxApiCalls == 2
MaxLines == 2

Callers == 1..NumCallers

\* ------------------------------------------------------- Token Manager
NoToken == "nil"
OldToken == "expired-token"
\* access_token values a token response can carry ("" is the empty token)
TokenVals == {"", "tok1", "tok2"}
\* HTTP statuses of the token endpoint: 200, another 2xx, an error
TokenStatuses == {200, 201, 500}
NoResp == [tok |-> NoToken, expAt |-> 0]

\* An answer of the token endpoint as fetchToken sees it: no response at all
\* (kind "transport"), a body that is not JSON ("garbled", only the status is
\* read), or a JSON body ("json") with its access_token and expires_in.
Answer(kind, status, tok, expiresIn) ==
    IF kind = "transport" THEN [kind |-> kind, status |-> 0, tok |-> "", expiresIn |-> 0]
    ELSE IF kind = "garbled" THEN [kind |-> kind, status |-> status, tok |-> "", expiresIn |-> 0]
    ELSE [kind |-> kind, status |-> status, tok |-> tok, expiresIn |-> expiresIn]
NoAnswer == [kind |-> "none", status |-> 0, tok |-> "", expiresIn |-> 0]

\* auth.go:59 and auth.go:76: tm.currentToken != nil && time.Now().Before(tm.expiresAt)
TokenValid(tok, exp, t) == tok # NoToken /\ t < exp

TokenInit ==
    /\ tmToken \in {NoToken, OldToken}
    /\ tmExpiresAt \in (IF tmToken = NoToken THEN {0} ELSE 0..(1 + MaxExpiresIn))
    /\ mu = 0
    /\ tpc = [c \in Callers |-> "idle"]
    /\ tret = [c \in Callers |-> [tok |-> "", err |-> "none"]]
    /\ fetchResp = NoResp
    /\ stores = {}
    /\ tokReqs = 0
    /\ tokFails = 0
    /\ issued = <<>>
    /\ calls = 0
    /\ tnow = 1
    /\ startExpired = ~TokenValid(tmToken, tmExpiresAt, tnow)
    /\ oldExpiresAt = tmExpiresAt
    /\ tchk = [c \in Callers |-> 0]
    /\ staleHandout = FALSE
    /\ answer = NoAnswer

\* Token tok has not expired at time t: it is the token cached at the start
\* and t is before that token's expiry, or the endpoint issued it with an
\* expiry after t.
Fresh(tok, t) ==
    \/ tok = OldToken /\ t < oldExpiresAt
    \/ \E i \in 1..Len(issued) : issued[i].tok = tok /\ t < issued[i].expAt

\* A fetchToken that does not wait for the mutex.
LockNotTaken == TRUE

\* auth.go:72: tm.mu.Lock() returns only when no caller holds the mutex.
LockFree == mu = 0

\* A caller enters GetToken (auth.go:57).
GetTokenCall(c) ==
    /\ tpc[c] \in {"idle", "done"}
    /\ calls < MaxCalls
    /\ calls' = calls + 1
    /\ tpc' = [tpc EXCEPT ![c] = "readTok"]
    /\ UNCHANGED <<tmToken, tmExpiresAt, mu, tret, fetchResp, stores,
                   tokReqs, tokFails, issued, startExpired, oldExpiresAt, answer, tchk, staleHandout, tnow>>
    /\ UNCHANGED nonTokenVars

\* auth.go:59, first operand: the unlocked read of tm.currentToken.
GetTokenReadToken(c) ==
    /\ tpc[c] = "readTok"
    /\ tpc' = [tpc EXCEPT ![c] = IF tmToken # NoToken THEN "readExp" ELSE "lock"]
    /\ UNCHANGED <<tmToken, tmExpiresAt, mu, tret, fetchResp, stores,
                   tokReqs, tokFails, issued, calls, startExpired, oldExpiresAt, answer, tchk, staleHandout, tnow>>
    /\ UNCHANGED nonTokenVars

\* auth.go:59, second operand: the unlocked read of tm.expiresAt.
GetTokenReadExpiry(c) ==
    /\ tpc[c] = "readExp"
    /\ tpc' = [tpc EXCEPT ![c] = IF tnow < tmExpiresAt THEN "retCached" ELSE "lock"]
    /\ tchk' = [tchk EXCEPT ![c] = IF tnow < tmExpiresAt THEN tnow ELSE 0]
    /\ UNCHANGED <<tmToken, tmExpiresAt, mu, tret, fetchResp, stores,
                   tokReqs, tokFails, issued, calls, startExpired, oldExpiresAt, answer, staleHandout, tnow>>
    /\ UNCHANGED nonTokenVars

\* auth.go:60: return tm.currentToken.AccessToken, read without the lock.
GetTokenReturnCached(c) ==
    /\ tpc[c] = "retCached"
    /\ tret' = [tret EXCEPT ![c] = [tok |-> tmToken, err |-> "none"]]
    /\ tpc' = [tpc EXCEPT ![c] = "done"]
    /\ staleHandout' = (staleHandout \/ ~Fresh(tmToken, tchk[c]))
    /\ tchk' = [tchk EXCEPT ![c] = 0]
    /\ UNCHANGED <<tmToken, tmExpiresAt, mu, fetchResp, stores,
                   tokReqs, tokFails, issued, calls, startExpired, oldExpiresAt, answer, tnow>>
    /\ UNCHANGED nonTokenVars

\* auth.go:72-78: tm.mu.Lock() and the double check under the lock: a valid
\* cache is returned without a request.
FetchLockCached(c) ==
    /\ tpc[c] = "lock"
    /\ LockFree
    /\ TokenValid(tmToken, tmExpiresAt, tnow)
    /\ tret' = [tret EXCEPT ![c] = [tok |-> tmToken, err |-> "none"]]
    /\ tpc' = [tpc EXCEPT ![c] = "done"]
    /\ UNCHANGED <<tmToken, tmExpiresAt, mu, fetchResp, stores,
                   tokReqs, tokFails, issued, calls, startExpired, oldExpiresAt, answer, tchk, staleHandout, tnow>>
    /\ UNCHANGED nonTokenVars

\* auth.go:72-106: the lock is taken, the cache is not valid, the JWT is signed
\* and the POST is sent to the token endpoint.
FetchSend(c) ==
    /\ tpc[c] = "lock"
    /\ LockFree
    /\ ~TokenValid(tmToken, tmExpiresAt, tnow)
    /\ mu' = c
    /\ tokReqs' = tokReqs + 1
    /\ tpc' = [tpc EXCEPT ![c] = "waitResp"]
    /\ UNCHANGED <<tmToken, tmExpiresAt, tret, fetchResp, stores,
                   tokFails, issued, calls, startExpired, oldExpiresAt, answer, tchk, staleHandout, tnow>>
    /\ UNCHANGED nonTokenVars

\* A fetchToken without the check of an empty access token.
ExchangeErrorEmptyAccepted(kind, status, tok) ==
    IF kind = "transport" THEN "transport"
    ELSE IF status # 200 THEN "status"
    ELSE IF kind = "garbled" THEN "decode"
    ELSE "none"

\* auth.go:112-123: what fetchToken makes of an answer of the endpoint:
\* "none" when it is accepted.
ExchangeError(kind, status, tok) ==
    IF kind = "transport" THEN "transport"
    ELSE IF status # 200 THEN "status"
    ELSE IF kind = "garbled" THEN "decode"
    ELSE IF tok = "" THEN "empty"
    ELSE "none"

\* auth.go:107-123 with the deferred Unlock: the exchange fails, the cache is
\* left alone and the error is returned.
FetchFail(c) ==
    /\ tpc[c] = "waitResp"
    /\ mu = c
    /\ \E kind \in {"transport", "json", "garbled"}, status \in TokenStatuses, tok \in TokenVals :
          /\ ExchangeError(kind, status, tok) # "none"
          /\ tret' = [tret EXCEPT ![c] = [tok |-> "", err |-> ExchangeError(kind, status, tok)]]
          /\ answer' = Answer(kind, status, tok, 0)
    /\ tokFails' = tokFails + 1
    /\ mu' = 0
    /\ tpc' = [tpc EXCEPT ![c] = "done"]
    /\ UNCHANGED <<tmToken, tmExpiresAt, fetchResp, stores,
                   tokReqs, issued, calls, startExpired, oldExpiresAt, tchk, staleHandout, tnow>>
    /\ UNCHANGED nonTokenVars

\* auth.go:116-126: the answer is accepted; the two stores to tm.currentToken
\* and tm.expiresAt are issued.  GetToken reads both fields without the lock
\* (a data race), so the stores become visible to it one at a time and in
\* either order.
FetchAccept(c) ==
    /\ tpc[c] = "waitResp"
    /\ mu = c
    /\ \E status \in TokenStatuses, tok \in TokenVals, expiresIn \in 0..MaxExpiresIn :
          /\ ExchangeError("json", status, tok) = "none"
          /\ fetchResp' = [tok |-> tok, expAt |-> tnow + expiresIn]
          /\ issued' = Append(issued, [tok |-> tok, expAt |-> tnow + expiresIn])
          /\ answer' = Answer("json", status, tok, expiresIn)
    /\ stores' = {"currentToken", "expiresAt"}
    /\ tpc' = [tpc EXCEPT ![c] = "store"]
    /\ UNCHANGED <<tmToken, tmExpiresAt, mu, tret, tokReqs, tokFails,
                   calls, startExpired, oldExpiresAt, tchk, staleHandout, tnow>>
    /\ UNCHANGED nonTokenVars

\* auth.go:125-126: one of the two stores reaches memory.
FetchStore(c) ==
    /\ tpc[c] = "store"
    /\ \E f \in stores :
          /\ stores' = stores \ {f}
          /\ tmToken' = IF f = "currentToken" THEN fetchResp.tok ELSE tmToken
          /\ tmExpiresAt' = IF f = "expiresAt" THEN fetchResp.expAt ELSE tmExpiresAt
    /\ UNCHANGED <<mu, tpc, tret, fetchResp, tokReqs, tokFails, issued,
                   calls, startExpired, oldExpiresAt, answer, tchk, staleHandout, tnow>>
    /\ UNCHANGED nonTokenVars

\* auth.go:128 with the deferred Unlock (auth.go:73).
FetchReturn(c) ==
    /\ tpc[c] = "store"
    /\ stores = {}
    /\ tret' = [tret EXCEPT ![c] = [tok |-> fetchResp.tok, err |-> "none"]]
    /\ fetchResp' = NoResp
    /\ mu' = 0
    /\ tpc' = [tpc EXCEPT ![c] = "done"]
    /\ UNCHANGED <<tmToken, tmExpiresAt, stores, tokReqs, tokFails, issued,
                   calls, startExpired, oldExpiresAt, answer, tchk, staleHandout, tnow>>
    /\ UNCHANGED nonTokenVars

\* Time passes.
TokenTick ==
    /\ tnow < MaxTokenClock
    /\ tnow' = tnow + 1
    /\ UNCHANGED <<tmToken, tmExpiresAt, mu, tpc, tret, fetchResp, stores,
                   tokReqs, tokFails, issued, calls, startExpired, oldExpiresAt, answer, tchk, staleHandout>>
    /\ UNCHANGED nonTokenVars

TokenNext ==
    \/ \E c \in Callers : GetTokenCall(c)
    \/ \E c \in Callers : GetTokenReadToken(c)
    \/ \E c \in Callers : GetTokenReadExpiry(c)
    \/ \E c \in Callers : GetTokenReturnCached(c)
    \/ \E c \in Callers : FetchLockCached(c)
    \/ \E c \in Callers : FetchSend(c)
    \/ \E c \in Callers : FetchFail(c)
    \/ \E c \in Callers : FetchAccept(c)
    \/ \E c \in Callers : FetchStore(c)
    \/ \E c \in Callers : FetchReturn(c)
    \/ TokenTick



\* ---------------------------------- real cloud service and compute client
\* The statuses an instance is fetched with; REPAIRING stands for every
\* status the code does not name.
InstanceStatuses == {"RUNNING", "PROVISIONING", "STAGING", "STOPPING",
                     "TERMINATED", "SUSPENDED", "REPAIRING"}
OperationStatuses == {"PENDING", "RUNNING", "DONE"}
\* The access tokens GetToken can return to doRequest.
BearerTokens == TokenVals \ {""}
\* HTTP statuses of the compute API: success, a 3xx, an error
HttpStatuses == {200, 304, 403}
\* A response body json.Unmarshal rejects.
Garbled == "garbled"
NotFetched == ""
NoErr == [wrap |-> "", label |-> "", kind |-> "", cause |-> "none"]

\* An error value: the wrapper ScaleDown adds (service.go:287, 300), the
\* label of the message StopInstance / GetInstance / waitForOperation built,
\* the kind of the failure underneath, and the context error that
\* errors.Is finds wrapped in it ("none" when there is none).
Failure(wrap, label, kind, cause) ==
    [wrap |-> wrap, label |-> label, kind |-> kind, cause |-> cause]

TimeoutLabel == "timeout waiting for operation to complete"
PollLabel == "failed to get operation status"

\* A doRequest that takes every status outside 2xx for an error.
ResponseErrorNon2xx(status, envelope) ==
    IF status \notin 200..299
    THEN IF envelope THEN "provider" ELSE "status"
    ELSE "none"

\* compute.go:113-130: the error doRequest makes of a response ("none": the
\* body is returned).
ResponseError(status, envelope) ==
    IF status >= 400
    THEN IF envelope THEN "provider" ELSE "status"
    ELSE "none"

\* compute.go:88-105, before the request is on the wire: with a context that
\* is done, the token refresh (auth.go:99-108) or client.Do fails with the
\* context's error; otherwise GetToken fails or the request is sent.
\* token is what GetToken returned to doRequest ("" with an error).
SendOutcomes(ctx) ==
    IF ctx # "none"
    THEN {[sent |-> FALSE, kind |-> "token", cause |-> ctx, token |-> ""]}
         \cup {[sent |-> FALSE, kind |-> "transport", cause |-> ctx, token |-> t] :
                   t \in BearerTokens}
    ELSE {[sent |-> TRUE, kind |-> "", cause |-> "none", token |-> t] : t \in BearerTokens}
         \cup {[sent |-> FALSE, kind |-> "token", cause |-> "none", token |-> ""]}

\* A doRequest that sets no Authorization header.
AuthHeaderMissing(token) == <<>>

\* compute.go:98: req.Header.Set("Authorization", "Bearer "+token).
AuthHeader(token) == <<"Bearer", token>>

NoReq == [op |-> "", auth |-> <<>>, got |-> ""]

\* compute.go:94-102: what outcome o of the sending half of doRequest leaves
\* behind: the token obtained, and the request on the wire with its header.
OnWire(op, o) ==
    /\ tokensGot' = tokensGot + (IF o.token # "" THEN 1 ELSE 0)
    /\ reqsSent' = reqsSent + (IF o.sent THEN 1 ELSE 0)
    /\ lastReq' = IF o.sent
                  THEN [op |-> op, auth |-> AuthHeader(o.token), got |-> o.token]
                  ELSE lastReq

\* compute.go:102-132, the request is on the wire: the context ends it, the
\* transport fails, or the provider answers.
\* status is 0 when no response arrived; envelope tells whether the body
\* parses as the provider's error envelope with a message.
RecvOutcomes(ctx) ==
    IF ctx # "none"
    THEN {[kind |-> "transport", cause |-> ctx, status |-> 0, envelope |-> FALSE]}
    ELSE {[kind |-> "transport", cause |-> "none", status |-> 0, envelope |-> FALSE]}
         \cup {[kind |-> ResponseError(st, env), cause |-> "none",
                 status |-> st, envelope |-> env] :
                   st \in HttpStatuses, env \in BOOLEAN}

NoResponse == [status |-> 0, envelope |-> FALSE, err |-> "none"]

\* compute.go:102-132: the response doRequest received with outcome o and
\* the error it made of it.
Received(o) ==
    IF o.status = 0 THEN NoResponse
    ELSE [status |-> o.status, envelope |-> o.envelope, err |-> o.kind]

\* A StopInstance that sends the stop request a second time when it failed.
RetryStopOnce(sent) == sent < 2

\* compute.go:155-158: a failed stop request is returned to the caller, it
\* is not sent again.
RetryStop(sent) == FALSE

\* An early return for a TERMINATED instance only.
AlreadyStoppedTerminatedOnly(status) == status = "TERMINATED"

\* An early return for every status GetCurrentScale reports as scale 0.
AlreadyStoppedScaleZero(status) == status \in {"TERMINATED", "STOPPING", "SUSPENDED"}

\* service.go:294: the instance is already stopped or stopping.
AlreadyStopped(status) == status = "TERMINATED" \/ status = "STOPPING"

\* A final check that accepts every instance status.
StoppedOkAnyStatus(status) == TRUE

\* compute.go:178: the check of the instance fetched after the operation.
StoppedOk(status) == status = "TERMINATED"

InWait == sdPc \in {"select", "pollWait"}

\* A wait whose first poll is due as soon as it starts.
FirstTickAtOnce(now, pollInterval) == now

\* compute.go:205: time.NewTicker(c.pollInterval) delivers its first tick one
\* interval after it was made.
FirstTickAt(now, pollInterval) == now + pollInterval

\* A context derived without a deadline: done only when its parent is.
WaitCtxNoTimeout(parent, t, deadline) == parent

\* compute.go:202: ctx, cancel := context.WithTimeout(ctx, c.timeout).  The
\* derived context at time t: done with its parent's error as soon as the
\* parent is, else with DeadlineExceeded once its own deadline has passed.
WaitCtxAt(parent, t, deadline) ==
    IF parent # "none" THEN parent
    ELSE IF t >= deadline THEN "DeadlineExceeded"
    ELSE "none"

\* No deadline of a call lies beyond this time.
StopHorizon == MaxCallerDeadline + MaxTimeout + MaxPoll

StopInit ==
    /\ sdPc = "idle"
    /\ sdErr = NoErr
    /\ sdCalls = 0
    /\ callerCtx = "none"
    /\ callerDeadline = 0
    /\ waitCtx = "none"
    /\ waitDeadline = 0
    /\ tickReady = FALSE
    /\ nextTickAt = 0
    /\ cfgTimeout \in 1..MaxTimeout
    /\ cfgPoll \in 1..MaxPoll
    /\ firstStatus = NotFetched
    /\ finalStatus = NotFetched
    /\ waitEnd = ""
    /\ stopResult = ""
    /\ stopSent = 0
    /\ pollsSent = 0
    /\ snow = 0
    /\ lastReq = NoReq
    /\ reqsSent = 0
    /\ tokensGot = 0
    /\ lastResp = NoResponse

\* ScaleDown returns: the deferred ticker.Stop() (compute.go:206) has run.
SdReturn(err) ==
    /\ sdErr' = err
    /\ sdPc' = "done"
    /\ tickReady' = FALSE
    /\ nextTickAt' = 0

\* service.go:277: ScaleDown is called with context ctx, which may carry a
\* deadline.
ScaleDownStart(ctx) ==
    /\ sdPc \in {"idle", "done"}
    /\ sdCalls < MaxScaleDowns
    /\ sdCalls' = sdCalls + 1
    /\ callerDeadline' \in 0..MaxCallerDeadline
    /\ sdPc' = "getInstance"
    /\ sdErr' = NoErr
    /\ callerCtx' = ctx
    /\ waitCtx' = "none"
    /\ waitDeadline' = 0
    /\ tickReady' = FALSE
    /\ nextTickAt' = 0
    /\ firstStatus' = NotFetched
    /\ finalStatus' = NotFetched
    /\ waitEnd' = ""
    /\ stopResult' = ""
    /\ stopSent' = 0
    /\ pollsSent' = 0
    /\ snow' = 0
    /\ lastReq' = NoReq
    /\ reqsSent' = 0
    /\ tokensGot' = 0
    /\ lastResp' = NoResponse
    /\ UNCHANGED <<cfgTimeout, cfgPoll>>
    /\ UNCHANGED nonStopVars

\* A caller of ScaleDown passes a context that is not done yet.
ScaleDownCall == ScaleDownStart("none")

\* service.go:285 -> compute.go:135-138: the first GetInstance sends its request.
GetInstanceSend ==
    /\ sdPc = "getInstance"
    /\ \E o \in SendOutcomes(callerCtx) :
          /\ OnWire("get", o)
          /\ IF o.sent
             THEN /\ sdPc' = "getInstanceWait"
                  /\ UNCHANGED <<sdErr, tickReady, nextTickAt>>
             ELSE SdReturn(Failure("get", "failed to get instance", o.kind, o.cause))
    /\ UNCHANGED <<sdCalls, callerCtx, callerDeadline, waitCtx, waitDeadline,
                   cfgTimeout, cfgPoll, lastResp, firstStatus, finalStatus, waitEnd,
                   stopResult, stopSent, pollsSent, snow>>
    /\ UNCHANGED nonStopVars

\* service.go:285-296: the first GetInstance returns; an instance that is
\* TERMINATED or STOPPING ends ScaleDown with success.
GetInstanceRecv ==
    /\ sdPc = "getInstanceWait"
    /\ \E o \in RecvOutcomes(callerCtx), body \in InstanceStatuses \cup {Garbled} :
          /\ lastResp' = Received(o)
          /\ IF o.kind # "none"
             THEN /\ SdReturn(Failure("get", "failed to get instance", o.kind, o.cause))
                  /\ UNCHANGED firstStatus
             ELSE IF body = Garbled
             THEN /\ SdReturn(Failure("get", "failed to unmarshal instance response", "decode", "none"))
                  /\ UNCHANGED firstStatus
             ELSE /\ firstStatus' = body
                  /\ IF AlreadyStopped(body)
                     THEN SdReturn(NoErr)
                     ELSE /\ sdPc' = "stop"
                          /\ UNCHANGED <<sdErr, tickReady, nextTickAt>>
    /\ UNCHANGED <<sdCalls, callerCtx, callerDeadline, waitCtx, waitDeadline,
                   cfgTimeout, cfgPoll, lastReq, reqsSent, tokensGot, finalStatus, waitEnd,
                   stopResult, stopSent, pollsSent, snow>>
    /\ UNCHANGED nonStopVars

\* service.go:298 -> compute.go:154-158: StopInstance sends the stop request.
StopSend ==
    /\ sdPc = "stop"
    /\ \E o \in SendOutcomes(callerCtx) :
          /\ OnWire("stop", o)
          /\ IF o.sent
             THEN /\ sdPc' = "stopWait"
                  /\ stopSent' = stopSent + 1
                  /\ UNCHANGED <<sdErr, tickReady, nextTickAt, stopResult>>
             ELSE /\ SdReturn(Failure("stop", "request", o.kind, o.cause))
                  /\ stopResult' = "err"
                  /\ UNCHANGED stopSent
    /\ UNCHANGED <<sdCalls, callerCtx, callerDeadline, waitCtx, waitDeadline,
                   cfgTimeout, cfgPoll, lastResp, firstStatus, finalStatus, waitEnd,
                   pollsSent, snow>>
    /\ UNCHANGED nonStopVars

\* compute.go:155-167 and 202-206: the stop call returns; on success
\* waitForOperation derives its context and starts its ticker.
StopRecv ==
    /\ sdPc = "stopWait"
    /\ \E o \in RecvOutcomes(callerCtx), parses \in BOOLEAN :
          /\ lastResp' = Received(o)
          /\ IF o.kind # "none" /\ RetryStop(stopSent)
             THEN /\ sdPc' = "stop"
                  /\ UNCHANGED <<sdErr, tickReady, nextTickAt, stopResult,
                                 waitCtx, waitDeadline>>
             ELSE IF o.kind # "none"
             THEN /\ SdReturn(Failure("stop", "request", o.kind, o.cause))
                  /\ stopResult' = "err"
                  /\ UNCHANGED <<waitCtx, waitDeadline>>
             ELSE IF ~parses
             THEN /\ SdReturn(Failure("stop", "failed to unmarshal operation response", "decode", "none"))
                  /\ stopResult' = "err"
                  /\ UNCHANGED <<waitCtx, waitDeadline>>
             ELSE /\ sdPc' = "select"
                  /\ waitDeadline' = snow + cfgTimeout
                  /\ waitCtx' = WaitCtxAt(callerCtx, snow, waitDeadline')
                  /\ nextTickAt' = FirstTickAt(snow, cfgPoll)
                  /\ tickReady' = FALSE
                  /\ UNCHANGED <<sdErr, stopResult>>
    /\ UNCHANGED <<sdCalls, callerCtx, callerDeadline, cfgTimeout, cfgPoll, lastReq, reqsSent, tokensGot,
                   firstStatus, finalStatus, waitEnd, stopSent, pollsSent, snow>>
    /\ UNCHANGED nonStopVars

\* compute.go:210-211: the select takes <-ctx.Done().
WaitCtxDone ==
    /\ sdPc = "select"
    /\ waitCtx # "none"
    /\ SdReturn(Failure("stop", TimeoutLabel, "ctxDone", waitCtx))
    /\ waitEnd' = "ctxDone"
    /\ stopResult' = "err"
    /\ UNCHANGED <<sdCalls, callerCtx, callerDeadline, waitCtx, waitDeadline,
                   cfgTimeout, cfgPoll, lastResp, lastReq, reqsSent, tokensGot, firstStatus, finalStatus,
                   stopSent, pollsSent, snow>>
    /\ UNCHANGED nonStopVars

\* compute.go:212-218: the select takes <-ticker.C and the poll is sent.
WaitTick ==
    /\ sdPc = "select"
    /\ tickReady
    /\ \E o \in SendOutcomes(waitCtx) :
          /\ OnWire("poll", o)
          /\ IF o.sent
             THEN /\ sdPc' = "pollWait"
                  /\ tickReady' = FALSE
                  /\ pollsSent' = pollsSent + 1
                  /\ UNCHANGED <<sdErr, nextTickAt, waitEnd, stopResult>>
             ELSE /\ SdReturn(Failure("stop", PollLabel, o.kind, o.cause))
                  /\ waitEnd' = "pollError"
                  /\ stopResult' = "err"
                  /\ UNCHANGED pollsSent
    /\ UNCHANGED <<sdCalls, callerCtx, callerDeadline, waitCtx, waitDeadline,
                   cfgTimeout, cfgPoll, lastResp, firstStatus, finalStatus, stopSent, snow>>
    /\ UNCHANGED nonStopVars

\* compute.go:215-231: the poll returns; DONE without an error ends the
\* wait, DONE with an error fails it, anything else loops.
PollRecv ==
    /\ sdPc = "pollWait"
    /\ \E o \in RecvOutcomes(waitCtx), body \in OperationStatuses \cup {Garbled},
          opError \in BOOLEAN :
          /\ lastResp' = Received(o)
          /\ IF o.kind # "none"
             THEN /\ SdReturn(Failure("stop", PollLabel, o.kind, o.cause))
                  /\ waitEnd' = "pollError"
                  /\ stopResult' = "err"
             ELSE IF body = Garbled
             THEN /\ SdReturn(Failure("stop", "failed to decode operation response", "decode", "none"))
                  /\ waitEnd' = "pollError"
                  /\ stopResult' = "err"
             ELSE IF body = "DONE" /\ opError
             THEN /\ SdReturn(Failure("stop", "operation failed", "opError", "none"))
                  /\ waitEnd' = "opFailed"
                  /\ stopResult' = "err"
             ELSE IF body = "DONE"
             THEN /\ sdPc' = "verify"
                  /\ waitEnd' = "done"
                  /\ tickReady' = FALSE
                  /\ nextTickAt' = 0
                  /\ UNCHANGED <<sdErr, stopResult>>
             ELSE /\ sdPc' = "select"
                  /\ UNCHANGED <<sdErr, waitEnd, stopResult, tickReady, nextTickAt>>
    /\ UNCHANGED <<sdCalls, callerCtx, callerDeadline, waitCtx, waitDeadline,
                   cfgTimeout, cfgPoll, lastReq, reqsSent, tokensGot, firstStatus, finalStatus,
                   stopSent, pollsSent, snow>>
    /\ UNCHANGED nonStopVars

\* compute.go:173: the instance is fetched again, with the caller's context.
VerifySend ==
    /\ sdPc = "verify"
    /\ \E o \in SendOutcomes(callerCtx) :
          /\ OnWire("get", o)
          /\ IF o.sent
             THEN /\ sdPc' = "verifyWait"
                  /\ UNCHANGED <<sdErr, tickReady, nextTickAt, stopResult>>
             ELSE /\ SdReturn(Failure("stop", "failed to get instance", o.kind, o.cause))
                  /\ stopResult' = "err"
    /\ UNCHANGED <<sdCalls, callerCtx, callerDeadline, waitCtx, waitDeadline,
                   cfgTimeout, cfgPoll, lastResp, firstStatus, finalStatus, waitEnd,
                   stopSent, pollsSent, snow>>
    /\ UNCHANGED nonStopVars

\* compute.go:173-182: the instance must be TERMINATED.
VerifyRecv ==
    /\ sdPc = "verifyWait"
    /\ \E o \in RecvOutcomes(callerCtx), body \in InstanceStatuses \cup {Garbled} :
          /\ lastResp' = Received(o)
          /\ IF o.kind # "none"
             THEN /\ SdReturn(Failure("stop", "failed to get instance", o.kind, o.cause))
                  /\ stopResult' = "err"
                  /\ UNCHANGED finalStatus
             ELSE IF body = Garbled
             THEN /\ SdReturn(Failure("stop", "failed to unmarshal instance response", "decode", "none"))
                  /\ stopResult' = "err"
                  /\ UNCHANGED finalStatus
             ELSE /\ finalStatus' = body
                  /\ IF StoppedOk(body)
                     THEN /\ SdReturn(NoErr)
                          /\ stopResult' = "ok"
                     ELSE /\ SdReturn(Failure("stop", "instance failed to stop", "badStatus", "none"))
                          /\ stopResult' = "err"
    /\ UNCHANGED <<sdCalls, callerCtx, callerDeadline, waitCtx, waitDeadline,
                   cfgTimeout, cfgPoll, lastReq, reqsSent, tokensGot, firstStatus, waitEnd,
                   stopSent, pollsSent, snow>>
    /\ UNCHANGED nonStopVars

\* Time passes during a ScaleDown call: the deadlines of the contexts and
\* the ticker fire.  (A context with a deadline is done with
\* DeadlineExceeded unless it was cancelled before; the derived context of
\* compute.go:202 is done as soon as its parent is.)
StopTick ==
    /\ snow < StopHorizon
    /\ \/ InWait /\ (waitCtx = "none" \/ ~tickReady)
       \/ sdPc \notin {"idle", "done"} /\ callerCtx = "none" /\ callerDeadline > snow
    /\ snow' = snow + 1
    /\ callerCtx' = IF callerCtx = "none" /\ callerDeadline # 0 /\ snow' >= callerDeadline
                    THEN "DeadlineExceeded" ELSE callerCtx
    /\ waitCtx' = IF ~InWait \/ waitCtx # "none" THEN waitCtx
                  ELSE WaitCtxAt(callerCtx', snow', waitDeadline)
    /\ IF InWait /\ snow' >= nextTickAt
       THEN /\ tickReady' = TRUE
            /\ nextTickAt' = nextTickAt + cfgPoll
       ELSE UNCHANGED <<tickReady, nextTickAt>>
    /\ UNCHANGED <<sdPc, sdErr, sdCalls, callerDeadline, waitDeadline,
                   cfgTimeout, cfgPoll, lastResp, lastReq, reqsSent, tokensGot, firstStatus, finalStatus, waitEnd,
                   stopResult, stopSent, pollsSent>>
    /\ UNCHANGED nonStopVars

\* The caller cancels the context it passed to ScaleDown.
CallerCancel ==
    /\ sdPc \notin {"idle", "done"}
    /\ callerCtx = "none"
    /\ callerCtx' = "Canceled"
    /\ waitCtx' = IF InWait /\ waitCtx = "none" THEN "Canceled" ELSE waitCtx
    /\ UNCHANGED <<sdPc, sdErr, sdCalls, callerDeadline, waitDeadline, tickReady,
                   nextTickAt, cfgTimeout, cfgPoll, lastResp, lastReq, reqsSent, tokensGot, firstStatus, finalStatus,
                   waitEnd, stopResult, stopSent, pollsSent, snow>>
    /\ UNCHANGED nonStopVars

StopNext ==
    \/ ScaleDownCall
    \/ GetInstanceSend
    \/ GetInstanceRecv
    \/ StopSend
    \/ StopRecv
    \/ WaitCtxDone
    \/ WaitTick
    \/ PollRecv
    \/ VerifySend
    \/ VerifyRecv
    \/ StopTick
    \/ CallerCancel


\* --------------------------------------------------------------- strings
\* Go strings are sequences of characters here.
\* strings.HasPrefix(s, prefix).
HasPrefix(str, prefix) ==
    Len(str) >= Len(prefix) /\ SubSeq(str, 1, Len(prefix)) = prefix

\* strings.Index(s, substr): the offset of the first occurrence, counted
\* from 0, or -1.
Index(str, substr) ==
    LET at == {i \in 0..(Len(str) - Len(substr)) :
                  SubSeq(str, i + 1, i + Len(substr)) = substr}
    IN IF at = {} THEN -1 ELSE CHOOSE i \in at : \A j \in at : i <= j

\* s[from:to] of Go.
Slice(str, from, to) == SubSeq(str, from + 1, to)

\* --------------------------------------------------- orchestration loop
Workers == 1..MaxWorkers
\* Two services of the proxy; both name the cloud resource "a".
Services == {"a@docker", "a"}
\* Router names; they differ in case only.
Routers == {"web", "Web"}
\* perMinuteRate values: negative, below, at and above any threshold
RateVals == (-1)..(MaxThreshold + 1)
EmptyMap == [s \in {} |-> 0]

\* config.RouterFilter: absent, present without names, or naming one router
RouterFilters == {[present |-> FALSE, names |-> {}],
                  [present |-> TRUE, names |-> {}],
                  [present |-> TRUE, names |-> {"web"}]}

\* A filter that compares the names without regard to case.
shouldMonitorRouterAnyCase(routerName) ==
    IF ~routerFilter.present \/ routerFilter.names = {}
    THEN TRUE
    ELSE routerName \in routerFilter.names \cup {"Web" : n \in routerFilter.names \cap {"web"}}

\* cloudsaver.go shouldMonitorRouter
shouldMonitorRouter(routerName) ==
    IF ~routerFilter.present \/ routerFilter.names = {}
    THEN TRUE
    ELSE routerName \in routerFilter.names

\* An entry of usedBy that is not a JSON string.
NotAString == "#42"

\* What GET /http/services/<name> can give getRouterForService: no response,
\* a body that is not JSON, or an object; hasUsedBy tells whether its usedBy
\* field is there and an array, usedBy holds the entries.
ServiceAnswers ==
    {[kind |-> k, hasUsedBy |-> FALSE, usedBy |-> <<>>] :
        k \in {"fetchError", "decodeError", "json"}}
    \cup {[kind |-> "json", hasUsedBy |-> TRUE, usedBy |-> u] :
             u \in {<<>>, <<"web">>, <<"Web", "web">>, <<NotAString>>}}

NoLookup == [service |-> "", answer |-> [kind |-> "", hasUsedBy |-> FALSE, usedBy |-> <<>>]]

\* A lookup that takes the last entry of usedBy.
getRouterForServiceLast(serviceInfo) ==
    IF serviceInfo.kind # "json" THEN "error"
    ELSE IF ~serviceInfo.hasUsedBy \/ Len(serviceInfo.usedBy) = 0 THEN "error"
    ELSE IF serviceInfo.usedBy[Len(serviceInfo.usedBy)] = NotAString THEN "panic"
    ELSE serviceInfo.usedBy[Len(serviceInfo.usedBy)]

\* cloudsaver.go getRouterForService: "error" for a returned error, "panic"
\* when usedBy[0].(string) panics, else the router name usedBy[0].
getRouterForService(serviceInfo) ==
    IF serviceInfo.kind # "json" THEN "error"
    ELSE IF ~serviceInfo.hasUsedBy \/ Len(serviceInfo.usedBy) = 0 THEN "error"
    ELSE IF serviceInfo.usedBy[1] = NotAString THEN "panic"
    ELSE serviceInfo.usedBy[1]

\* A comparison that also takes a rate equal to the threshold.
UnderThresholdOrEqual(rate) == rate <= threshold

\* cloudsaver.go generateConfiguration: if rate.PerMin < p.trafficThreshold
UnderThreshold(rate) == rate < threshold

\* A loop that also scales a monitored service up when its rate is not low.
ScaleActionBothWays(monitored, rate) ==
    IF ~monitored THEN "none"
    ELSE IF UnderThreshold(rate) THEN "ScaleDown" ELSE "ScaleUp"

\* cloudsaver.go generateConfiguration: the only call on p.cloudService is
\* ScaleDown, made for a monitored router's service under the threshold.
ScaleAction(monitored, rate) ==
    IF monitored /\ UnderThreshold(rate) THEN "ScaleDown" ELSE "none"

\* A loop that gives the tick up when ScaleDown fails.
AfterScaleDownAbort(err) == IF err THEN "select" ELSE "loop"

\* cloudsaver.go generateConfiguration: an error of ScaleDown is logged and
\* the range loop goes on: where the worker is after ScaleDown returned.
AfterScaleDown(err) == "loop"

LoopCommonInit ==
    /\ threshold \in 0..MaxThreshold
    /\ routerFilter \in RouterFilters
    /\ provided = 0
    /\ pCancel = 0
    /\ wctx = [w \in Workers |-> FALSE]
    /\ wpc = [w \in Workers |-> "none"]
    /\ wTick = [w \in Workers |-> FALSE]
    /\ rates = [w \in Workers |-> EmptyMap]
    /\ todo = [w \in Workers |-> {}]
    /\ cur = [w \in Workers |-> ""]
    /\ s2r = [w \in Workers |-> EmptyMap]
    /\ scaled = [w \in Workers |-> <<>>]
    /\ failed = [w \in Workers |-> {}]
    /\ looked = [w \in Workers |-> NoLookup]
    /\ scaledIds = [w \in Workers |-> <<>>]
    /\ panicked = [w \in Workers |-> FALSE]
    /\ ticks = 0
    /\ delivered = 0
    /\ cloudOps = {}

\* The host calls Provide once, as the plugin runtime does.
LoopInit ==
    /\ LoopCommonInit
    /\ providesLimit = 1
    /\ envServices = Services

\* The host calls Provide again on the same provider; one service is scraped.
ReprovideInit ==
    /\ LoopCommonInit
    /\ providesLimit = MaxWorkers
    /\ envServices = {"a"}

\* Outside a tick the locals of generateConfiguration do not exist.
ClearTick(w) ==
    /\ rates' = [rates EXCEPT ![w] = EmptyMap]
    /\ todo' = [todo EXCEPT ![w] = {}]
    /\ cur' = [cur EXCEPT ![w] = ""]
    /\ s2r' = [s2r EXCEPT ![w] = EmptyMap]
    /\ scaled' = [scaled EXCEPT ![w] = <<>>]
    /\ failed' = [failed EXCEPT ![w] = {}]
    /\ looked' = [looked EXCEPT ![w] = NoLookup]
    /\ scaledIds' = [scaledIds EXCEPT ![w] = <<>>]

cfgLoopVars == <<threshold, routerFilter, providesLimit, envServices>>
tickLocals == <<rates, todo, cur, s2r, scaled, failed, looked, scaledIds>>

\* cloudsaver.go Provide: a new context, p.cancel overwritten, a new goroutine.
Provide ==
    /\ provided < providesLimit
    /\ provided' = provided + 1
    /\ pCancel' = provided + 1
    /\ wpc' = [wpc EXCEPT ![provided + 1] = "select"]
    /\ UNCHANGED <<cfgLoopVars, cloudOps, wctx, wTick, tickLocals, panicked, ticks, delivered>>
    /\ UNCHANGED nonLoopVars

\* cloudsaver.go Stop: p.cancel().
Stop ==
    /\ pCancel # 0
    /\ wctx' = [wctx EXCEPT ![pCancel] = TRUE]
    /\ UNCHANGED <<cfgLoopVars, cloudOps, provided, pCancel, wpc, wTick, tickLocals,
                   panicked, ticks, delivered>>
    /\ UNCHANGED nonLoopVars

\* The ticker of loadConfiguration fires (its channel holds one tick).
TickerFire(w) ==
    /\ wpc[w] \notin {"none", "exited"}
    /\ ~wTick[w]
    /\ ticks < MaxTicks
    /\ wTick' = [wTick EXCEPT ![w] = TRUE]
    /\ UNCHANGED <<cfgLoopVars, cloudOps, provided, pCancel, wctx, wpc, tickLocals,
                   panicked, ticks, delivered>>
    /\ UNCHANGED nonLoopVars

\* loadConfiguration: the select takes <-ctx.Done() and the worker returns.
LoopCtxDone(w) ==
    /\ wpc[w] = "select"
    /\ wctx[w]
    /\ wpc' = [wpc EXCEPT ![w] = "exited"]
    /\ wTick' = [wTick EXCEPT ![w] = FALSE]
    /\ UNCHANGED <<cfgLoopVars, cloudOps, provided, pCancel, wctx, tickLocals,
                   panicked, ticks, delivered>>
    /\ UNCHANGED nonLoopVars

\* loadConfiguration: the select takes <-ticker.C; generateConfiguration
\* fetches the rates.  A failed fetch is logged and the loop continues.
TickStart(w) ==
    /\ wpc[w] = "select"
    /\ wTick[w]
    /\ wTick' = [wTick EXCEPT ![w] = FALSE]
    /\ ticks' = ticks + 1
    /\ \E ok \in BOOLEAN, S \in SUBSET envServices :
          IF ~ok
          THEN UNCHANGED <<wpc, tickLocals>>
          ELSE /\ rates' \in {[rates EXCEPT ![w] = r] : r \in [S -> RateVals]}
               /\ todo' = [todo EXCEPT ![w] = S]
               /\ wpc' = [wpc EXCEPT ![w] = "loop"]
               /\ UNCHANGED <<cur, s2r, scaled, failed, looked, scaledIds>>
    /\ UNCHANGED <<cfgLoopVars, cloudOps, provided, pCancel, wctx, panicked, delivered>>
    /\ UNCHANGED nonLoopVars

\* The characters of the service names of the model.
ServiceNames == {"a@docker", "a", "svc1", "svc2"}

Spelling(name) ==
    CASE name = "a@docker" -> <<"a", "@", "d", "o", "c", "k", "e", "r">>
      [] name = "a" -> <<"a">>
      [] name = "svc1" -> <<"s", "v", "c", "1">>
      [] name = "svc2" -> <<"s", "v", "c", "2">>

\* The name with these characters.
Named(chars) == CHOOSE name \in ServiceNames : Spelling(name) = chars

\* A ScaleDown that is handed the service name as it is.
getCloudServiceNameWhole(traefikServiceName) == traefikServiceName

\* cloudsaver.go getCloudServiceName: the name up to its first '@'.
getCloudServiceName(traefikServiceName) ==
    LET at_i == Index(Spelling(traefikServiceName), <<"@">>)
    IN IF at_i # -1
       THEN Named(Slice(Spelling(traefikServiceName), 0, at_i))
       ELSE traefikServiceName

\* One iteration of the range loop of generateConfiguration: the router is
\* looked up (getRouterForService: an error, a panic of usedBy[0].(string),
\* or the first entry of usedBy), filtered, and ScaleDown is invoked when the
\* rate is under the threshold.  A panic unwinds loadConfiguration to the
\* recover of Provide, after which the goroutine ends.
Iterate(w) ==
    /\ wpc[w] = "loop"
    /\ \E s \in todo[w], serviceInfo \in ServiceAnswers :
          /\ todo' = [todo EXCEPT ![w] = todo[w] \ {s}]
          /\ looked' = [looked EXCEPT ![w] = [service |-> s, answer |-> serviceInfo]]
          /\ LET lookup == getRouterForService(serviceInfo) IN
             IF lookup = "panic"
             THEN /\ panicked' = [panicked EXCEPT ![w] = TRUE]
                  /\ wpc' = [wpc EXCEPT ![w] = "exited"]
                  /\ wTick' = [wTick EXCEPT ![w] = FALSE]
                  /\ UNCHANGED <<cur, s2r, scaled, scaledIds, cloudOps>>
             ELSE IF lookup = "error"
             THEN UNCHANGED <<panicked, wpc, wTick, cur, s2r, scaled, scaledIds, cloudOps>>
             ELSE /\ s2r' = [s2r EXCEPT ![w] =
                                [x \in DOMAIN s2r[w] \cup {s} |->
                                    IF x = s THEN lookup ELSE s2r[w][x]]]
                  /\ LET act == ScaleAction(shouldMonitorRouter(lookup), rates[w][s]) IN
                       IF act # "none"
                       THEN /\ wpc' = [wpc EXCEPT ![w] = "scaling"]
                            /\ cur' = [cur EXCEPT ![w] = s]
                            /\ cloudOps' = cloudOps \cup {act}
                            /\ scaled' = [scaled EXCEPT ![w] =
                                  IF act = "ScaleDown" THEN Append(scaled[w], s) ELSE scaled[w]]
                            /\ scaledIds' = [scaledIds EXCEPT ![w] =
                                  IF act = "ScaleDown"
                                     THEN Append(scaledIds[w], getCloudServiceName(s))
                                     ELSE scaledIds[w]]
                       ELSE UNCHANGED <<wpc, cur, scaled, scaledIds, cloudOps>>
                  /\ UNCHANGED <<panicked, wTick>>
    /\ UNCHANGED <<cfgLoopVars, provided, pCancel, wctx, rates, failed, ticks, delivered>>
    /\ UNCHANGED nonLoopVars

\* cloudsaver.go generateConfiguration: what the return of ScaleDown, with
\* an error or without, does to worker w: it is logged and the loop goes on.
Returned(w, err) ==
    /\ failed' = [failed EXCEPT ![w] = IF err THEN failed[w] \cup {cur[w]} ELSE failed[w]]
    /\ wpc' = [wpc EXCEPT ![w] = AfterScaleDown(err)]
    /\ cur' = [cur EXCEPT ![w] = ""]
    /\ UNCHANGED <<cfgLoopVars, cloudOps, provided, pCancel, wctx, wTick, rates, todo, s2r,
                   scaled, looked, scaledIds, panicked, ticks, delivered>>

\* p.cloudService.ScaleDown returns, with or without an error.
ScaleDownReturn(w) ==
    /\ wpc[w] = "scaling"
    /\ \E err \in BOOLEAN : Returned(w, err)
    /\ UNCHANGED nonLoopVars

\* generateConfiguration returns the empty configuration and
\* loadConfiguration sends it: cfgChan <- configuration.
LoopEnd(w) ==
    /\ wpc[w] = "loop"
    /\ todo[w] = {}
    /\ wpc' = [wpc EXCEPT ![w] = "send"]
    /\ UNCHANGED <<cfgLoopVars, cloudOps, provided, pCancel, wctx, wTick, tickLocals,
                   panicked, ticks, delivered>>
    /\ UNCHANGED nonLoopVars

\* The host receives the snapshot; the worker is back at the select.
Deliver(w) ==
    /\ wpc[w] = "send"
    /\ wpc' = [wpc EXCEPT ![w] = "select"]
    /\ delivered' = delivered + 1
    /\ ClearTick(w)
    /\ UNCHANGED <<cfgLoopVars, cloudOps, provided, pCancel, wctx, wTick, panicked, ticks>>
    /\ UNCHANGED nonLoopVars

LoopNext ==
    \/ Provide
    \/ Stop
    \/ \E w \in Workers : TickerFire(w)
    \/ \E w \in Workers : LoopCtxDone(w)
    \/ \E w \in Workers : TickStart(w)
    \/ \E w \in Workers : Iterate(w)
    \/ \E w \in Workers : ScaleDownReturn(w)
    \/ \E w \in Workers : LoopEnd(w)
    \/ \E w \in Workers : Deliver(w)

\* ------------------------------------ the loop driving the real service
\* A loop that hands the worker's own context to ScaleDown.
ScaleDownCtxOfWorker(w) == IF wctx[w] THEN "Canceled" ELSE "none"

\* cloudsaver.go:239: p.cloudService.ScaleDown(context.Background(), ...).
ScaleDownCtx(w) == "none"

\* cloudsaver.go generateConfiguration -> service.go ScaleDown: the worker
\* that is in its ScaleDown invocation calls the real cloud service with
\* context.Background(), a context without deadline that is never cancelled.
TickScaleDownCall ==
    /\ sdPc = "idle"
    /\ \E w \in Workers :
          /\ wpc[w] = "scaling"
          /\ ScaleDownStart(ScaleDownCtx(w))
    /\ callerDeadline' = 0

\* The call returns to the worker, which logs the outcome and goes on; the
\* locals of the call are gone.
TickScaleDownReturn(w) ==
    /\ wpc[w] = "scaling"
    /\ sdPc = "done"
    /\ Returned(w, sdErr # NoErr)
    /\ sdPc' = "idle"
    /\ sdErr' = NoErr
    /\ firstStatus' = NotFetched
    /\ finalStatus' = NotFetched
    /\ waitEnd' = ""
    /\ stopResult' = ""
    /\ stopSent' = 0
    /\ pollsSent' = 0
    /\ snow' = 0
    /\ waitCtx' = "none"
    /\ waitDeadline' = 0
    /\ lastReq' = NoReq
    /\ reqsSent' = 0
    /\ tokensGot' = 0
    /\ lastResp' = NoResponse
    /\ UNCHANGED <<sdCalls, callerCtx, callerDeadline, tickReady, nextTickAt,
                   cfgTimeout, cfgPoll>>
    /\ UNCHANGED <<tokenVars, metricsVars, mockVars, svcVars, provVars, scrapeVars>>

TickNext ==
    \/ Provide
    \/ Stop
    \/ \E w \in Workers : TickerFire(w)
    \/ \E w \in Workers : LoopCtxDone(w)
    \/ \E w \in Workers : TickStart(w)
    \/ \E w \in Workers : Iterate(w)
    \/ \E w \in Workers : LoopEnd(w)
    \/ \E w \in Workers : Deliver(w)
    \/ TickScaleDownCall
    \/ \E w \in Workers : TickScaleDownReturn(w)
    \/ GetInstanceSend
    \/ GetInstanceRecv
    \/ StopSend
    \/ StopRecv
    \/ WaitCtxDone
    \/ WaitTick
    \/ PollRecv
    \/ VerifySend
    \/ VerifyRecv
    \/ StopTick

\* ------------------------------------------------------ metrics collector
\* metrics.go.  Totals are the float64 sums of the scraped counter lines;
\* the model takes whole totals and whole seconds that divide 60, for which
\* (requestDiff / seconds) * 60 is the exact quotient (requestDiff * 60) / seconds.
MetricServices == {"svc1", "svc2"}

Totals == 0..MaxCount

\* What fetchServiceRequests can return without an error: a map from the
\* services of the scrape to their totals (metrics.go:80-124).
Scrapes == UNION {[S -> Totals] : S \in SUBSET MetricServices}

\* make(map[string]float64): the map without entries (metrics.go:34).
NoCounts == <<>>

\* mc.lastCounts[service]: the zero value for a service the map does not hold
\* (metrics.go:57).
LastCount(base, service) ==
    IF service \in DOMAIN base THEN base[service] ELSE 0

\* A collector that reports the cumulative total whatever the baseline.
PerMinCumulative(base, service, count, seconds) == count

\* A collector that takes the cumulative total on its very first call only.
PerMinFirstCall(base, service, count, seconds) ==
    IF lastTime = 0
       THEN count
       ELSE IF seconds > 0
               THEN ((count - LastCount(base, service)) * 60) \div seconds
               ELSE 0

\* A collector that reports no rate below 0.
PerMinClamped(base, service, count, seconds) ==
    IF Cardinality(DOMAIN base) = 0
       THEN count
       ELSE IF seconds > 0 /\ count >= LastCount(base, service)
               THEN ((count - LastCount(base, service)) * 60) \div seconds
               ELSE 0

\* metrics.go:52-63: ratePerMin of one service.  seconds is
\* duration.Seconds(); without a positive duration the rate stays 0.
PerMin(base, service, count, seconds) ==
    IF Cardinality(DOMAIN base) = 0
       THEN count
       ELSE IF seconds > 0
               THEN ((count - LastCount(base, service)) * 60) \div seconds
               ELSE 0

\* metrics.go:50-71: the rate map built from currentCounts.
ServiceRates(base, counts, duration) ==
    [service \in DOMAIN counts |->
        [ServiceName |-> service,
         Total |-> counts[service],
         PerMin |-> PerMin(base, service, counts[service], duration),
         Duration |-> duration]]

\* A collector that keeps the entries of the old baseline the scrape lacks.
NewBaselineMerged(base, counts) ==
    [service \in DOMAIN base \cup DOMAIN counts |->
        IF service \in DOMAIN counts THEN counts[service] ELSE base[service]]

\* metrics.go:74: mc.lastCounts = currentCounts.
NewBaseline(base, counts) == counts

\* A collector that moves the baseline time at a failed fetch as well.
TimeAfterFailedFetchNow(last, now) == now

\* metrics.go:41-44: the early return of a failed fetch leaves mc.lastTime.
TimeAfterFailedFetch(last, now) == last

\* NewMetricsCollector (metrics.go:30-37).
MetricsInit ==
    /\ lastCounts = NoCounts
    /\ lastTime = 0
    /\ mnow = 0
    /\ fetched = NoCounts
    /\ mRates = NoCounts
    /\ mErr = FALSE
    /\ prevCounts = NoCounts
    /\ prevTime = 0
    /\ mCalls = 0

\* GetServiceRates (metrics.go:40-77), d seconds after the clock was last
\* read: the fetch fails (metrics.go:41-44) or returns the counts of a scrape.
Collect(d, ok, counts) ==
    /\ mnow' = mnow + d
    /\ prevCounts' = lastCounts
    /\ prevTime' = lastTime
    /\ mCalls' = mCalls + 1
    /\ mErr' = ~ok
    /\ IF ok
          THEN /\ mRates' = ServiceRates(lastCounts, counts, mnow' - lastTime)
               /\ lastCounts' = NewBaseline(lastCounts, counts)
               /\ lastTime' = mnow'
               /\ fetched' = counts
          ELSE /\ mRates' = NoCounts
               /\ lastTime' = TimeAfterFailedFetch(lastTime, mnow')
               /\ UNCHANGED <<lastCounts, fetched>>

\* A call of GetServiceRates.  Time has passed since the clock was last
\* read: the call follows an HTTP round trip.
GetServiceRates ==
    /\ \E d \in 1..(MaxMetricsClock - mnow), ok \in BOOLEAN, counts \in Scrapes :
          Collect(d, ok, counts)
    /\ UNCHANGED nonMetricsVars

MetricsNext == GetServiceRates

\* ------------------------------------ the loop fed by the collector
\* loadConfiguration: the select takes <-ticker.C; generateConfiguration
\* calls p.metricsCollector.GetServiceRates() (cloudsaver.go:213) and ranges
\* over the rates it returned.  A failed fetch is logged and the loop
\* continues.
TickFetch(w) ==
    /\ wpc[w] = "select"
    /\ wTick[w]
    /\ wTick' = [wTick EXCEPT ![w] = FALSE]
    /\ ticks' = ticks + 1
    /\ \E d \in 1..(MaxMetricsClock - mnow), ok \in BOOLEAN, counts \in Scrapes :
          /\ Collect(d, ok, counts)
          /\ IF ~ok
             THEN UNCHANGED <<wpc, tickLocals>>
             ELSE /\ rates' = [rates EXCEPT ![w] =
                                 [service \in DOMAIN counts |-> mRates'[service].PerMin]]
                  /\ todo' = [todo EXCEPT ![w] = DOMAIN counts]
                  /\ wpc' = [wpc EXCEPT ![w] = "loop"]
                  /\ UNCHANGED <<cur, s2r, scaled, failed, looked, scaledIds>>
    /\ UNCHANGED <<cfgLoopVars, cloudOps, provided, pCancel, wctx, panicked, delivered>>
    /\ UNCHANGED <<tokenVars, stopVars, mockVars, svcVars, provVars, scrapeVars>>

RatesNext ==
    \/ Provide
    \/ \E w \in Workers : TickerFire(w)
    \/ \E w \in Workers : TickFetch(w)
    \/ \E w \in Workers : Iterate(w)
    \/ \E w \in Workers : ScaleDownReturn(w)
    \/ \E w \in Workers : LoopEnd(w)
    \/ \E w \in Workers : Deliver(w)

\* --------------------------------------------------- mock cloud service
\* cloud/mock/service.go, with goroutines that each call ScaleUp and then
\* ScaleDown for one resource (service_test.go, "concurrent access") and the
\* goroutine of the reset timer.
MockWorkers == 1..MaxMockWorkers

\* The goroutine started by New (service.go:70-73).
ResetTimer == MaxMockWorkers + 1

Resource == "concurrent-service"

FailAfters == {0, 1}

ResetAfters == {0, 1}

\* make(map[string]int32) (service.go:58, 167).
NoScales == <<>>

\* s.scale[serviceName] as an expression: the zero value for a missing key
\* (service.go:133).
ScaleOf(m, name) == IF name \in DOMAIN m THEN m[name] ELSE 0

\* s.scale[serviceName] = v.
PutScale(m, name, v) ==
    [k \in DOMAIN m \cup {name} |-> IF k = name THEN v ELSE m[k]]

\* A mutex that never makes a goroutine wait.
MockLockIgnored == TRUE

\* s.mu.Lock() returns once no goroutine holds the mutex.
MockLockFree == mmu = 0

\* New (service.go:42-82) with config.InitialScale holding the resource or
\* not, and in the second case SetScale (service.go:156-160) before the
\* workers start; WithScaleError may have set s.scaleErr.
MockInit ==
    /\ seed \in 0..MaxSeed
    /\ initialScale \in {NoScales, PutScale(NoScales, Resource, seed)}
    /\ scale = PutScale(NoScales, Resource, seed)
    /\ mmu = 0
    /\ opCount = 0
    /\ failAfter \in FailAfters
    /\ scaleErr \in BOOLEAN
    /\ resetAfter \in ResetAfters
    /\ resetFired = FALSE
    /\ mpc = [w \in MockWorkers |-> "up"]
    /\ mcur = [w \in MockWorkers |-> 0]
    /\ mop = [w \in MockWorkers |-> 0]
    /\ mfail = [w \in MockWorkers |-> 0]
    /\ rpc = "sleep"
    /\ passed = {}
    /\ injected = {}

mockCfgVars == <<initialScale, seed, failAfter, resetAfter>>

\* ScaleUp, service.go:122: s.mu.Lock().
ScaleUpLock(w) ==
    /\ mpc[w] = "up"
    /\ MockLockFree
    /\ mmu' = w
    /\ mpc' = [mpc EXCEPT ![w] = "upLocked"]
    /\ UNCHANGED <<mockCfgVars, scale, opCount, scaleErr, resetFired, mcur, mop, mfail, rpc, passed, injected>>
    /\ UNCHANGED nonMockVars

\* ScaleUp, service.go:128-133: the error configured for scaling is
\* returned (the deferred Unlock runs), else the scale is read.
ScaleUpRead(w) ==
    /\ mpc[w] = "upLocked"
    /\ IF scaleErr
          THEN /\ mfail' = [mfail EXCEPT ![w] = @ + 1]
               /\ mmu' = 0
               /\ mpc' = [mpc EXCEPT ![w] = "down"]
               /\ UNCHANGED mcur
          ELSE /\ mcur' = [mcur EXCEPT ![w] = ScaleOf(scale, Resource)]
               /\ mpc' = [mpc EXCEPT ![w] = "upRead"]
               /\ UNCHANGED <<mfail, mmu>>
    /\ UNCHANGED <<mockCfgVars, scale, opCount, scaleErr, resetFired, mop, rpc, passed,
                   injected>>
    /\ UNCHANGED nonMockVars

\* ScaleUp, service.go:133-134: the incremented scale is stored and the
\* deferred Unlock runs.
ScaleUpWrite(w) ==
    /\ mpc[w] = "upRead"
    /\ scale' = PutScale(scale, Resource, mcur[w] + 1)
    /\ mmu' = 0
    /\ mpc' = [mpc EXCEPT ![w] = "down"]
    /\ UNCHANGED <<mockCfgVars, opCount, scaleErr, resetFired, mcur, mop, mfail, rpc, passed, injected>>
    /\ UNCHANGED nonMockVars

\* checkFailure, service.go:92: s.opCount is loaded, outside the mutex.
CheckFailureLoad(w) ==
    /\ mpc[w] = "down"
    /\ mop' = [mop EXCEPT ![w] = opCount]
    /\ mpc' = [mpc EXCEPT ![w] = "downCheck"]
    /\ UNCHANGED <<mockCfgVars, scale, mmu, opCount, scaleErr, resetFired, mcur, mfail,
                   rpc, passed, injected>>
    /\ UNCHANGED nonMockVars

\* checkFailure, service.go:92-96, and ScaleDown, service.go:100-102: the
\* incremented count is stored and compared with s.failAfter.
CheckFailureStore(w) ==
    /\ mpc[w] = "downCheck"
    /\ opCount' = mop[w] + 1
    /\ IF failAfter > 0 /\ mop[w] + 1 > failAfter
          THEN /\ mfail' = [mfail EXCEPT ![w] = @ + 1]
               /\ mpc' = [mpc EXCEPT ![w] = "done"]
               /\ injected' = injected \cup {w}
               /\ UNCHANGED passed
          ELSE /\ mpc' = [mpc EXCEPT ![w] = "downLock"]
               /\ passed' = passed \cup {w}
               /\ UNCHANGED <<mfail, injected>>
    /\ UNCHANGED <<mockCfgVars, scale, mmu, scaleErr, resetFired, mcur, mop, rpc>>
    /\ UNCHANGED nonMockVars

\* A ScaleDown that decrements whatever the scale is.
AtMinimumNever(current) == FALSE

\* ScaleDown, service.go:112: if current <= 0.
AtMinimum(current) == current <= 0

\* ScaleDown, service.go:104: s.mu.Lock().
ScaleDownLock(w) ==
    /\ mpc[w] = "downLock"
    /\ MockLockFree
    /\ mmu' = w
    /\ mpc' = [mpc EXCEPT ![w] = "downLocked"]
    /\ UNCHANGED <<mockCfgVars, scale, opCount, scaleErr, resetFired, mcur, mop, mfail, rpc, passed, injected>>
    /\ UNCHANGED nonMockVars

\* ScaleDown, service.go:107-115: an unknown resource is an error, a scale
\* of 0 or less is left alone, else the scale has been read.
ScaleDownRead(w) ==
    /\ mpc[w] = "downLocked"
    /\ IF Resource \notin DOMAIN scale
          THEN /\ mfail' = [mfail EXCEPT ![w] = @ + 1]
               /\ mmu' = 0
               /\ mpc' = [mpc EXCEPT ![w] = "done"]
               /\ UNCHANGED mcur
          ELSE /\ mcur' = [mcur EXCEPT ![w] = scale[Resource]]
               /\ IF AtMinimum(scale[Resource])
                     THEN /\ mmu' = 0
                          /\ mpc' = [mpc EXCEPT ![w] = "done"]
                     ELSE /\ mpc' = [mpc EXCEPT ![w] = "downRead"]
                          /\ UNCHANGED mmu
               /\ UNCHANGED mfail
    /\ UNCHANGED <<mockCfgVars, scale, opCount, scaleErr, resetFired, mop, rpc, passed,
                   injected>>
    /\ UNCHANGED nonMockVars

\* ScaleDown, service.go:117-118: the decremented scale is stored and the
\* deferred Unlock runs.
ScaleDownWrite(w) ==
    /\ mpc[w] = "downRead"
    /\ scale' = PutScale(scale, Resource, mcur[w] - 1)
    /\ mmu' = 0
    /\ mpc' = [mpc EXCEPT ![w] = "done"]
    /\ UNCHANGED <<mockCfgVars, opCount, scaleErr, resetFired, mcur, mop, mfail, rpc, passed, injected>>
    /\ UNCHANGED nonMockVars

\* The configured scales Reset leaves out.
RestoredEmpty(initial) == NoScales

\* Reset, service.go:171-173: the map filled from p.config.InitialScale.
Restored(initial) == initial

\* The reset timer, service.go:69-73, and Reset, service.go:165: after the
\* sleep the timer's goroutine takes the mutex.
TimerResetLock ==
    /\ resetAfter > 0
    /\ rpc = "sleep"
    /\ MockLockFree
    /\ mmu' = ResetTimer
    /\ rpc' = "locked"
    /\ resetFired' = TRUE
    /\ UNCHANGED <<mockCfgVars, scale, opCount, scaleErr, mpc, mcur, mop, mfail, passed,
                   injected>>
    /\ UNCHANGED nonMockVars

\* Reset, service.go:167-169: the map is replaced by an empty one and the
\* configured errors are cleared.
TimerResetClear ==
    /\ rpc = "locked"
    /\ scale' = NoScales
    /\ scaleErr' = FALSE
    /\ rpc' = "cleared"
    /\ UNCHANGED <<mockCfgVars, mmu, opCount, resetFired, mpc, mcur, mop, mfail, passed,
                   injected>>
    /\ UNCHANGED nonMockVars

\* Reset, service.go:171-174: the configured scales are copied in and the
\* deferred Unlock runs.
TimerResetFill ==
    /\ rpc = "cleared"
    /\ scale' = Restored(initialScale)
    /\ mmu' = 0
    /\ rpc' = "done"
    /\ UNCHANGED <<mockCfgVars, opCount, scaleErr, resetFired, mpc, mcur, mop, mfail,
                   passed, injected>>
    /\ UNCHANGED nonMockVars

\* SetScale, service.go:156-160, called by a test between the workers'
\* calls: under the mutex the scale of the resource is set.
SetScale ==
    /\ MockLockFree
    /\ \E v \in 0..MaxSeed : scale' = PutScale(scale, Resource, v)
    /\ UNCHANGED <<mockCfgVars, mmu, opCount, scaleErr, resetFired, mpc, mcur, mop, mfail,
                   rpc, passed, injected>>
    /\ UNCHANGED nonMockVars

MockNext ==
    \/ \E w \in MockWorkers : ScaleUpLock(w)
    \/ \E w \in MockWorkers : ScaleUpRead(w)
    \/ \E w \in MockWorkers : ScaleUpWrite(w)
    \/ \E w \in MockWorkers : CheckFailureLoad(w)
    \/ \E w \in MockWorkers : CheckFailureStore(w)
    \/ \E w \in MockWorkers : ScaleDownLock(w)
    \/ \E w \in MockWorkers : ScaleDownRead(w)
    \/ \E w \in MockWorkers : ScaleDownWrite(w)
    \/ TimerResetLock
    \/ TimerResetClear
    \/ TimerResetFill

\* The same with a test that calls SetScale while the workers run.
MockSetNext ==
    \/ \E w \in MockWorkers : ScaleUpLock(w)
    \/ \E w \in MockWorkers : ScaleUpRead(w)
    \/ \E w \in MockWorkers : ScaleUpWrite(w)
    \/ \E w \in MockWorkers : CheckFailureLoad(w)
    \/ \E w \in MockWorkers : CheckFailureStore(w)
    \/ \E w \in MockWorkers : ScaleDownLock(w)
    \/ \E w \in MockWorkers : ScaleDownRead(w)
    \/ \E w \in MockWorkers : ScaleDownWrite(w)
    \/ TimerResetLock
    \/ TimerResetClear
    \/ TimerResetFill
    \/ SetScale

\* ----------------------------- construction and API of the cloud service
\* cloud/service.go NewService, cloud/gcp/service.go New, ScaleUp and
\* GetCurrentScale, cloud/mock/service.go New.
Discriminators == {"gcp", "mock", "aws", "azure", "", "GCP"}

\* What os.ReadFile and json.Unmarshal make of the service account file
\* (gcp/service.go loadServiceAccountCredentials).
AccountFiles == {"unreadable", "notJSON", "noProject", "withProject"}

\* The configurations a constructor can be given.  creds is "nil" for no
\* Credentials, "noSecret" for an empty Secret; keyOk tells whether
\* NewJWTSigner can parse the private key; resetAfterOk whether
\* time.ParseDuration accepts ResetAfter.
CloudConfigs ==
    [nil : {FALSE},
     type : Discriminators,
     zone : {"", "zone-a"},
     region : {"", "region-1"},
     projectID : {"", "cfg-project"},
     creds : {"nil", "noSecret", "secret"},
     credsType : {"", "service_account", "token", "jwt"},
     accountFile : AccountFiles,
     keyOk : BOOLEAN,
     resetAfterOk : BOOLEAN]

NilConfig ==
    [nil |-> TRUE, type |-> "", zone |-> "", region |-> "", projectID |-> "",
     creds |-> "nil", credsType |-> "", accountFile |-> "unreadable",
     keyOk |-> FALSE, resetAfterOk |-> TRUE]

NoService == [kind |-> "none", projectID |-> "", zone |-> "", region |-> ""]

Failed(err) == [svc |-> NoService, err |-> err]

\* A constructor that does not ask for a region.
RequiredFieldsErrorNoRegion(c) ==
    IF c.nil THEN "config can't be nil for GCP"
    ELSE IF c.zone = "" THEN "zone is required for GCP"
    ELSE IF c.creds \in {"nil", "noSecret"} THEN "credentials are required for GCP"
    ELSE ""

\* gcp.New, service.go:210-224: the checks of the configuration itself.
RequiredFieldsError(c) ==
    IF c.nil THEN "config can't be nil for GCP"
    ELSE IF c.zone = "" THEN "zone is required for GCP"
    ELSE IF c.region = "" THEN "region is required for GCP"
    ELSE IF c.creds \in {"nil", "noSecret"} THEN "credentials are required for GCP"
    ELSE ""

\* gcp.New, service.go:226-241: the error of loading the credentials.
CredentialsError(c) ==
    IF c.credsType \in {"service_account", ""}
       THEN IF c.accountFile \in {"unreadable", "notJSON"}
               THEN "failed to load service account credentials"
               ELSE ""
       ELSE IF c.credsType = "token" THEN ""
       ELSE "unsupported credentials type"

\* creds.ProjectID: the project of the service account file, none for a token.
CredsProject(c) ==
    IF c.credsType \in {"service_account", ""} /\ c.accountFile = "withProject"
       THEN "account-project"
       ELSE ""

\* gcp.New, service.go:244-250: the configured project, else the one of the
\* credentials.
ProjectOf(c) == IF c.projectID # "" THEN c.projectID ELSE CredsProject(c)

\* gcp.New (service.go:209-275).
GcpNew(c) ==
    IF RequiredFieldsError(c) # "" THEN Failed(RequiredFieldsError(c))
    ELSE IF CredentialsError(c) # "" THEN Failed(CredentialsError(c))
    ELSE IF ProjectOf(c) = "" THEN Failed("project ID is required for GCP")
    ELSE IF ~c.keyOk THEN Failed("failed to create token manager")
    ELSE [svc |-> [kind |-> "gcp", projectID |-> ProjectOf(c), zone |-> c.zone,
                   region |-> c.region],
          err |-> ""]

\* mock.New (mock/service.go:42-82).
MockNew(c) ==
    IF c.nil THEN Failed("config is required")
    ELSE IF ~c.resetAfterOk THEN Failed("invalid resetAfter")
    ELSE [svc |-> [kind |-> "mock", projectID |-> "", zone |-> "", region |-> ""],
          err |-> ""]

\* A factory that falls back to the mock for a discriminator it does not know.
NewServiceDefaultMock(c) ==
    IF c.nil THEN Failed("panic: nil pointer dereference")
    ELSE IF c.type = "gcp" THEN GcpNew(c) ELSE MockNew(c)

\* cloud.NewService (cloud/service.go:74-95); config.Type of a nil
\* configuration panics.
NewService(c) ==
    CASE c.nil -> Failed("panic: nil pointer dereference")
      [] c.type = "aws" -> Failed("AWS implementation not yet available")
      [] c.type = "gcp" ->
            IF GcpNew(c).err # ""
               THEN Failed("failed to create GCP cloud service")
               ELSE GcpNew(c)
      [] c.type = "azure" -> Failed("AZURE implementation not yet available")
      [] c.type = "mock" ->
            IF MockNew(c).err # ""
               THEN Failed("failed to create mock cloud service")
               ELSE MockNew(c)
      [] OTHER -> Failed("unknown cloud provider")

\* The instance statuses GetInstance can hand to GetCurrentScale.
FetchedStatuses == InstanceStatuses \cup {"SUSPENDED", "REPAIRING", "running", ""}

\* A mapping that counts a stopping instance as running.
ScaleOfStatusStoppingUp(status) ==
    IF status \in {"RUNNING", "PROVISIONING", "STAGING", "STOPPING"} THEN 1 ELSE 0

\* GetCurrentScale, service.go:316-324: the switch on instance.Status.
ScaleOfStatus(status) ==
    CASE status \in {"RUNNING", "PROVISIONING", "STAGING"} -> 1
      [] status \in {"TERMINATED", "SUSPENDED", "STOPPING"} -> 0
      [] OTHER -> 0

NotImplemented == "scale up operation not implemented for GCP instances"

\* A ScaleUp that starts the instance.
ScaleUpStarts(instanceName) == [err |-> "", sent |-> 1]

\* ScaleUp, service.go:306-308.
ScaleUpResult(instanceName) == [err |-> NotImplemented, sent |-> 0]

InstanceNames == {"a", ""}

SvcInit ==
    /\ cloudCfg \in CloudConfigs \cup {NilConfig}
    /\ ctor = ""
    /\ built = NoService
    /\ buildErr = ""
    /\ apiCall = ""
    /\ apiCalls = 0
    /\ apiStatus = ""
    /\ apiScale = 0
    /\ apiErr = ""
    /\ apiSent = 0

apiVars == <<apiCall, apiCalls, apiStatus, apiScale, apiErr, apiSent>>

\* gcp.New called with the configuration.
CallGcpNew ==
    /\ ctor = ""
    /\ ctor' = "gcp.New"
    /\ built' = GcpNew(cloudCfg).svc
    /\ buildErr' = GcpNew(cloudCfg).err
    /\ UNCHANGED <<cloudCfg, apiVars>>
    /\ UNCHANGED nonSvcVars

\* cloud.NewService called with the configuration.
CallNewService ==
    /\ ctor = ""
    /\ ctor' = "cloud.NewService"
    /\ built' = NewService(cloudCfg).svc
    /\ buildErr' = NewService(cloudCfg).err
    /\ UNCHANGED <<cloudCfg, apiVars>>
    /\ UNCHANGED nonSvcVars

\* ScaleUp of the real service.
GcpScaleUp ==
    /\ built.kind = "gcp"
    /\ apiCalls < MaxApiCalls
    /\ \E instanceName \in InstanceNames :
          /\ apiErr' = ScaleUpResult(instanceName).err
          /\ apiSent' = ScaleUpResult(instanceName).sent
    /\ apiCall' = "ScaleUp"
    /\ apiCalls' = apiCalls + 1
    /\ UNCHANGED <<cloudCfg, ctor, built, buildErr, apiStatus, apiScale>>
    /\ UNCHANGED nonSvcVars

\* GetCurrentScale of the real service, service.go:310-325: GetInstance
\* fails, having sent its request or not, or hands back the instance.
GcpGetCurrentScale ==
    /\ built.kind = "gcp"
    /\ apiCalls < MaxApiCalls
    /\ \E fetchedOk \in BOOLEAN, status \in FetchedStatuses, sent \in {0, 1} :
          /\ fetchedOk => sent = 1
          /\ apiSent' = sent
          /\ IF fetchedOk
                THEN /\ apiStatus' = status
                     /\ apiScale' = ScaleOfStatus(status)
                     /\ apiErr' = ""
                ELSE /\ apiStatus' = ""
                     /\ apiScale' = 0
                     /\ apiErr' = "failed to get instance"
    /\ apiCall' = "GetCurrentScale"
    /\ apiCalls' = apiCalls + 1
    /\ UNCHANGED <<cloudCfg, ctor, built, buildErr>>
    /\ UNCHANGED nonSvcVars

SvcNext ==
    \/ CallGcpNew
    \/ CallNewService
    \/ GcpScaleUp
    \/ GcpGetCurrentScale

\* ------------------------------------------------------------ the scrape
\* metrics.go fetchServiceRequests (lines 80-124) and parseMetricLine
\* (lines 127-160) on the lines of a response body.  A line is the sequence
\* of its characters; with it go the facts about it that the properties
\* use: whether it is a line of the request-count metric, its service label
\* (empty for none), its code label ("absent" for none), whether its trailing
\* value is a number, and that number.
MetricName ==
    <<"t", "r", "a", "e", "f", "i", "k", "_", "s", "e", "r", "v", "i", "c",
          "e", "_", "r", "e", "q", "u", "e", "s", "t", "s", "_", "t", "o",
          "t", "a", "l">>

\* `service="`
ServiceLabel == <<"s", "e", "r", "v", "i", "c", "e", "=", "\"">>

\* `code="`
CodeLabel == <<"c", "o", "d", "e", "=", "\"">>

\* traefik_service_requests_total{service="a"} 5
\* (no code label)
LinePlain ==
    [text |-> <<"t", "r", "a", "e", "f", "i", "k", "_", "s", "e", "r", "v", "i", "c",
                "e", "_", "r", "e", "q", "u", "e", "s", "t", "s", "_", "t", "o",
                "t", "a", "l", "{", "s", "e", "r", "v", "i", "c", "e", "=", "\"",
                "a", "\"", "}", " ", "5">>,
     metric |-> TRUE, service |-> <<"a">>, code |-> "absent", numeric |-> TRUE, value |-> 5]

\* traefik_service_requests_total{service="a",code="200"} 2
\* (code 200)
LineCode200 ==
    [text |-> <<"t", "r", "a", "e", "f", "i", "k", "_", "s", "e", "r", "v", "i", "c",
                "e", "_", "r", "e", "q", "u", "e", "s", "t", "s", "_", "t", "o",
                "t", "a", "l", "{", "s", "e", "r", "v", "i", "c", "e", "=", "\"",
                "a", "\"", ",", "c", "o", "d", "e", "=", "\"", "2", "0", "0", "\"",
                "}", " ", "2">>,
     metric |-> TRUE, service |-> <<"a">>, code |-> "200", numeric |-> TRUE, value |-> 2]

\* traefik_service_requests_total{service="a",code="404"} 1
\* (code 404)
LineCode404 ==
    [text |-> <<"t", "r", "a", "e", "f", "i", "k", "_", "s", "e", "r", "v", "i", "c",
                "e", "_", "r", "e", "q", "u", "e", "s", "t", "s", "_", "t", "o",
                "t", "a", "l", "{", "s", "e", "r", "v", "i", "c", "e", "=", "\"",
                "a", "\"", ",", "c", "o", "d", "e", "=", "\"", "4", "0", "4", "\"",
                "}", " ", "1">>,
     metric |-> TRUE, service |-> <<"a">>, code |-> "404", numeric |-> TRUE, value |-> 1]

\* traefik_service_requests_total{code="200",service="b"} 2
\* (code 200 before the service label)
LineCodeFirst ==
    [text |-> <<"t", "r", "a", "e", "f", "i", "k", "_", "s", "e", "r", "v", "i", "c",
                "e", "_", "r", "e", "q", "u", "e", "s", "t", "s", "_", "t", "o",
                "t", "a", "l", "{", "c", "o", "d", "e", "=", "\"", "2", "0", "0",
                "\"", ",", "s", "e", "r", "v", "i", "c", "e", "=", "\"", "b", "\"",
                "}", " ", "2">>,
     metric |-> TRUE, service |-> <<"b">>, code |-> "200", numeric |-> TRUE, value |-> 2]

\* traefik_service_requests_total{method="GET"} 5
\* (no service label)
LineNoService ==
    [text |-> <<"t", "r", "a", "e", "f", "i", "k", "_", "s", "e", "r", "v", "i", "c",
                "e", "_", "r", "e", "q", "u", "e", "s", "t", "s", "_", "t", "o",
                "t", "a", "l", "{", "m", "e", "t", "h", "o", "d", "=", "\"", "G",
                "E", "T", "\"", "}", " ", "5">>,
     metric |-> TRUE, service |-> <<>>, code |-> "absent", numeric |-> TRUE, value |-> 5]

\* traefik_service_requests_total{service="a"} x
\* (a value that is no number)
LineNotNumeric ==
    [text |-> <<"t", "r", "a", "e", "f", "i", "k", "_", "s", "e", "r", "v", "i", "c",
                "e", "_", "r", "e", "q", "u", "e", "s", "t", "s", "_", "t", "o",
                "t", "a", "l", "{", "s", "e", "r", "v", "i", "c", "e", "=", "\"",
                "a", "\"", "}", " ", "x">>,
     metric |-> TRUE, service |-> <<"a">>, code |-> "absent", numeric |-> FALSE, value |-> 0]

\* traefik_service_requests_total{service="a"} 1x
\* (a value that starts with a digit and is no number)
LineDigitThenLetter ==
    [text |-> <<"t", "r", "a", "e", "f", "i", "k", "_", "s", "e", "r", "v", "i", "c",
                "e", "_", "r", "e", "q", "u", "e", "s", "t", "s", "_", "t", "o",
                "t", "a", "l", "{", "s", "e", "r", "v", "i", "c", "e", "=", "\"",
                "a", "\"", "}", " ", "1", "x">>,
     metric |-> TRUE, service |-> <<"a">>, code |-> "absent", numeric |-> FALSE, value |-> 0]

\* traefik_service_requests_total{service="a",code="2000"} 1
\* (a code label that starts with 200)
LineCode2000 ==
    [text |-> <<"t", "r", "a", "e", "f", "i", "k", "_", "s", "e", "r", "v", "i", "c",
                "e", "_", "r", "e", "q", "u", "e", "s", "t", "s", "_", "t", "o",
                "t", "a", "l", "{", "s", "e", "r", "v", "i", "c", "e", "=", "\"",
                "a", "\"", ",", "c", "o", "d", "e", "=", "\"", "2", "0", "0", "0",
                "\"", "}", " ", "1">>,
     metric |-> TRUE, service |-> <<"a">>, code |-> "2000", numeric |-> TRUE, value |-> 1]

\* up{service="a"} 5
\* (another metric)
LineOtherMetric ==
    [text |-> <<"u", "p", "{", "s", "e", "r", "v", "i", "c", "e", "=", "\"", "a", "\"",
                "}", " ", "5">>,
     metric |-> FALSE, service |-> <<"a">>, code |-> "absent", numeric |-> TRUE, value |-> 5]

MetricLines ==
    {LinePlain, LineCode200, LineCode404, LineCodeFirst, LineNoService,
     LineNotNumeric, LineDigitThenLetter, LineCode2000, LineOtherMetric}

\* The response bodies: up to MaxLines lines.
Bodies == UNION {[1..n -> MetricLines] : n \in 0..MaxLines}

Digits == {"0", "1", "2", "3", "4", "5", "6", "7", "8", "9"}

DigitValue(c) ==
    CASE c = "0" -> 0 [] c = "1" -> 1 [] c = "2" -> 2 [] c = "3" -> 3
      [] c = "4" -> 4 [] c = "5" -> 5 [] c = "6" -> 6 [] c = "7" -> 7
      [] c = "8" -> 8 [] c = "9" -> 9

RECURSIVE Decimal(_)
Decimal(ds) ==
    IF ds = <<>> THEN 0
    ELSE 10 * Decimal(SubSeq(ds, 1, Len(ds) - 1)) + DigitValue(ds[Len(ds)])

\* The number of leading digits of str.
LeadingDigits(str) ==
    CHOOSE n \in 0..Len(str) :
        /\ \A i \in 1..n : str[i] \in Digits
        /\ n < Len(str) => str[n + 1] \notin Digits

\* fmt.Sscanf(str, "%f", &count) for texts made of digits and letters: the
\* verb takes the longest prefix that can be part of a number; no prefix is
\* an error; what follows the prefix is left unread and is no error.
Sscanf(str) ==
    IF LeadingDigits(str) = 0
       THEN [err |-> TRUE, count |-> 0]
       ELSE [err |-> FALSE, count |-> Decimal(SubSeq(str, 1, LeadingDigits(str)))]

\* strings.Split(line, " ") for the test len(parts) == 2 and parts[1].
SpaceAt(line) == {i \in 1..Len(line) : line[i] = " "}

\* return "", 0, false.
FailedParse == [serviceName |-> <<>>, count |-> 0, ok |-> FALSE, end |-> "returned"]

\* A parse for which every code label that starts with 2 is a success.
CodeAccepted2xx(code) == code # <<>> /\ code[1] = "2"

\* metrics.go:148: the three characters after `code="` are "200".
CodeAccepted(code) == code = <<"2", "0", "0">>

\* parseMetricLine (metrics.go:127-160).  A line too short for the slice of
\* the code (line 147) makes the slice expression panic.
parseMetricLine(line) ==
    IF Cardinality(SpaceAt(line)) # 1 THEN FailedParse
    ELSE LET sp == CHOOSE i \in SpaceAt(line) : TRUE
             scanned == Sscanf(SubSeq(line, sp + 1, Len(line)))
             start == Index(line, ServiceLabel)
         IN IF scanned.err THEN FailedParse
            ELSE IF start = -1 THEN FailedParse
            ELSE LET from == start + Len(ServiceLabel)
                     end == Index(Slice(line, from, Len(line)), <<"\"">>)
                     responseCode == Index(line, CodeLabel)
                 IN IF end = -1 THEN FailedParse
                    ELSE IF responseCode = -1
                       THEN [serviceName |-> Slice(line, from, from + end),
                             count |-> scanned.count, ok |-> TRUE, end |-> "returned"]
                    ELSE IF responseCode + Len(CodeLabel) + 3 > Len(line)
                       THEN [serviceName |-> <<>>, count |-> 0, ok |-> FALSE, end |-> "panic"]
                    ELSE IF CodeAccepted(Slice(line, responseCode + Len(CodeLabel),
                                               responseCode + Len(CodeLabel) + 3))
                       THEN [serviceName |-> Slice(line, from, from + end),
                             count |-> scanned.count, ok |-> TRUE, end |-> "returned"]
                    ELSE FailedParse

\* serviceCounts[service] += count (metrics.go:118).
Accumulate(counts, service, count) ==
    [k \in DOMAIN counts \cup {service} |->
        IF k = service THEN LastCount(counts, service) + count ELSE counts[k]]

\* No call of parseMetricLine: before the first line, and for a line of
\* another metric.
NotParsed == [serviceName |-> <<>>, count |-> 0, ok |-> FALSE, end |-> "skipped"]

\* fetchServiceRequests got a body and made the map (metrics.go:81-104).
ScrapeInit ==
    /\ scrapeBody \in Bodies
    /\ scanPos = 0
    /\ serviceCounts = NoCounts
    /\ lastParse = NotParsed

\* One round of the scanner loop (metrics.go:106-121): the next line is
\* parsed when it begins with the metric name, and counted when the parse
\* succeeded.
ScanLine ==
    /\ scanPos < Len(scrapeBody)
    /\ lastParse.end # "panic"
    /\ scanPos' = scanPos + 1
    /\ LET line == scrapeBody[scanPos + 1].text IN
         IF HasPrefix(line, MetricName)
            THEN /\ lastParse' = parseMetricLine(line)
                 /\ serviceCounts' =
                       IF parseMetricLine(line).ok
                          THEN Accumulate(serviceCounts, parseMetricLine(line).serviceName,
                                          parseMetricLine(line).count)
                          ELSE serviceCounts
            ELSE /\ lastParse' = NotParsed
                 /\ UNCHANGED serviceCounts
    /\ UNCHANGED scrapeBody
    /\ UNCHANGED nonScrapeVars

ScrapeNext == ScanLine

\* ------------------------------------------- construction of the provider
\* cloudsaver.go New and Init, called by the host, which calls Provide on a
\* provider only after its Init returned nil.
WindowTexts == {"", "5", "-2m", "30s", "1m", "5m"}

\* time.ParseDuration of the window texts: an empty text and a number
\* without unit are errors; else the duration in seconds.
ParseDuration(text) ==
    CASE text = "-2m" -> [ok |-> TRUE, seconds |-> -120]
      [] text = "30s" -> [ok |-> TRUE, seconds |-> 30]
      [] text = "1m" -> [ok |-> TRUE, seconds |-> 60]
      [] text = "5m" -> [ok |-> TRUE, seconds |-> 300]
      [] OTHER -> [ok |-> FALSE, seconds |-> 0]

\* time.Minute, in seconds.
Minute == 60

ThresholdVals == {-1, 0, 1}

\* The configurations New can be given; cloudOk tells whether
\* cloud.NewService accepts config.CloudConfig.
ProvConfigs ==
    [nil : {FALSE},
     WindowSize : WindowTexts,
     testMode : BOOLEAN,
     TrafficThreshold : ThresholdVals,
     cloudOk : BOOLEAN]

NilProvConfig ==
    [nil |-> TRUE, WindowSize |-> "", testMode |-> FALSE, TrafficThreshold |-> 0,
     cloudOk |-> FALSE]

\* A check of the window that test mode does not switch off.
WindowTooShortAlways(seconds, testMode) == seconds < Minute

\* cloudsaver.go:52 and :83: windowSize < time.Minute && !testMode.
WindowTooShort(seconds, testMode) == seconds < Minute /\ ~testMode

\* New (cloudsaver.go:38-78): the error it returns, "" for nil.
NewError(config) ==
    IF config.nil THEN "config is nil"
    ELSE IF ~ParseDuration(config.WindowSize).ok THEN "invalid window size"
    ELSE IF WindowTooShort(ParseDuration(config.WindowSize).seconds, config.testMode)
       THEN "window size must be at least 1 minute"
    ELSE IF ~config.cloudOk THEN "failed to create cloud service"
    ELSE ""

\* Init (cloudsaver.go:81-97) of the provider New built from config.
InitError(config) ==
    IF WindowTooShort(ParseDuration(config.WindowSize).seconds, config.testMode)
       THEN "window size must be at least 1 minute"
    ELSE IF config.TrafficThreshold < 0 THEN "traffic threshold must be non-negative"
    ELSE ""

ProvInit ==
    /\ provCfg \in ProvConfigs \cup {NilProvConfig}
    /\ prov = "none"
    /\ provErr = ""
    /\ provWorkers = 0

\* The host calls New.
HostNew ==
    /\ prov = "none"
    /\ provErr' = NewError(provCfg)
    /\ prov' = IF NewError(provCfg) = "" THEN "constructed" ELSE "rejectedNew"
    /\ UNCHANGED <<provCfg, provWorkers>>
    /\ UNCHANGED nonProvVars

\* The host calls Init on the provider New returned.
HostInit ==
    /\ prov = "constructed"
    /\ provErr' = InitError(provCfg)
    /\ prov' = IF InitError(provCfg) = "" THEN "ready" ELSE "rejectedInit"
    /\ UNCHANGED <<provCfg, provWorkers>>
    /\ UNCHANGED nonProvVars

\* The host calls Provide (cloudsaver.go:100-115), which starts a worker.
HostProvide ==
    /\ prov = "ready"
    /\ provWorkers < MaxWorkers
    /\ provWorkers' = provWorkers + 1
    /\ UNCHANGED <<provCfg, prov, provErr>>
    /\ UNCHANGED nonProvVars

ProvNext ==
    \/ HostNew
    \/ HostInit
    \/ HostProvide

\* ------------------------------------------------------ specifications
\* A component that takes no part in a specification rests in one state.
TokenQuiet == TokenInit /\ tmToken = NoToken
StopQuiet == StopInit /\ cfgTimeout = 1 /\ cfgPoll = 1

LoopQuiet == LoopInit /\ threshold = 0 /\ ~routerFilter.present

MetricsQuiet == MetricsInit

SvcQuiet == SvcInit /\ cloudCfg = NilConfig

ProvQuiet == ProvInit /\ provCfg = NilProvConfig

ScrapeQuiet == ScrapeInit /\ scrapeBody = <<>>

MockQuiet ==
    /\ MockInit
    /\ seed = 0 /\ initialScale = NoScales /\ failAfter = 0 /\ ~scaleErr /\ resetAfter = 0

InitToken == TokenInit /\ StopQuiet /\ LoopQuiet /\ MetricsQuiet /\ MockQuiet /\ SvcQuiet /\ ProvQuiet /\ ScrapeQuiet
InitStop == StopInit /\ TokenQuiet /\ LoopQuiet /\ MetricsQuiet /\ MockQuiet /\ SvcQuiet /\ ProvQuiet /\ ScrapeQuiet
InitLoop == LoopInit /\ TokenQuiet /\ StopQuiet /\ MetricsQuiet /\ MockQuiet /\ SvcQuiet /\ ProvQuiet /\ ScrapeQuiet
InitReprovide == ReprovideInit /\ TokenQuiet /\ StopQuiet /\ MetricsQuiet /\ MockQuiet /\ SvcQuiet /\ ProvQuiet /\ ScrapeQuiet
InitMetrics == MetricsInit /\ TokenQuiet /\ StopQuiet /\ LoopQuiet /\ MockQuiet /\ SvcQuiet /\ ProvQuiet /\ ScrapeQuiet
InitMock == MockInit /\ TokenQuiet /\ StopQuiet /\ LoopQuiet /\ MetricsQuiet /\ SvcQuiet /\ ProvQuiet /\ ScrapeQuiet
InitSvc == SvcInit /\ TokenQuiet /\ StopQuiet /\ LoopQuiet /\ MetricsQuiet /\ MockQuiet /\ ProvQuiet /\ ScrapeQuiet

OthersQuiet ==
    /\ TokenQuiet /\ StopQuiet /\ LoopQuiet /\ MetricsQuiet /\ MockQuiet /\ SvcQuiet

InitProv == ProvInit /\ OthersQuiet /\ ScrapeQuiet
InitScrape == ScrapeInit /\ OthersQuiet /\ ProvQuiet

\* The loop with every router monitored and one service scraped, driving a
\* real cloud service.
InitTick ==
    /\ LoopCommonInit /\ threshold = MaxThreshold /\ ~routerFilter.present
    /\ providesLimit = 1
    /\ envServices = {"a@docker"}
    /\ StopInit /\ cfgPoll = 1 /\ cfgTimeout = cfgPoll + 1
    /\ TokenQuiet
    /\ MetricsQuiet
    /\ MockQuiet
    /\ SvcQuiet
    /\ ProvQuiet
    /\ ScrapeQuiet

SpecToken == InitToken /\ [][TokenNext]_vars

SpecStop == InitStop /\ [][StopNext]_vars

SpecLoop == InitLoop /\ [][LoopNext]_vars

SpecReprovide == InitReprovide /\ [][LoopNext]_vars

SpecTick == InitTick /\ [][TickNext]_vars

SpecMetrics == InitMetrics /\ [][MetricsNext]_vars

SpecMock == InitMock /\ [][MockNext]_vars

SpecMockSet == InitMock /\ [][MockSetNext]_vars

SpecSvc == InitSvc /\ [][SvcNext]_vars

InitRates == LoopInit /\ MetricsInit /\ TokenQuiet /\ StopQuiet /\ MockQuiet /\ SvcQuiet /\ ProvQuiet /\ ScrapeQuiet
SpecRates == InitRates /\ [][RatesNext]_vars

SpecProv == InitProv /\ [][ProvNext]_vars

SpecScrape == InitScrape /\ [][ScrapeNext]_vars

\* The goroutine running ScaleDown is scheduled, requests in flight end
\* (the context or the server ends them), and time passes.
FairStop ==
    /\ SpecStop
    /\ WF_vars(GetInstanceSend) /\ WF_vars(GetInstanceRecv)
    /\ WF_vars(StopSend) /\ WF_vars(StopRecv)
    /\ WF_vars(WaitCtxDone) /\ WF_vars(WaitTick) /\ WF_vars(PollRecv)
    /\ WF_vars(VerifySend) /\ WF_vars(VerifyRecv)
    /\ WF_vars(StopTick)

\* --------------------------------------------------------- properties

AllCallersDone == \A c \in Callers : tpc[c] = "done"

\* Every exchange so far succeeded and every issued token is still valid.
EndpointAnsweredWell ==
    /\ tokFails = 0
    /\ \A i \in 1..Len(issued) : tnow < issued[i].expAt

\* C1: for N concurrent GetToken calls against an expired cache, with the
\* token endpoint answering successfully, exactly one token-endpoint request
\* occurs and every caller returns the refreshed token.
C1_OneRequestSameToken ==
    (startExpired /\ AllCallersDone /\ EndpointAnsweredWell)
        => /\ tokReqs = 1
           /\ \A c \in Callers : tret[c] = [tok |-> issued[1].tok, err |-> "none"]

\* C2: StopInstance never returns a false success: it returns nil only when
\* the polled operation reached DONE without an operation error and the
\* instance fetched afterwards is TERMINATED; a wait ended by the context
\* (timeout, cancellation), a failed poll, a failed operation or any other
\* final instance status gives a non-nil error.
C2_NoFalseSuccess ==
    /\ stopResult = "ok" =>
          /\ waitEnd = "done"
          /\ finalStatus = "TERMINATED"
          /\ sdErr = NoErr
          /\ sdPc = "done"
    /\ waitEnd \in {"ctxDone", "pollError", "opFailed"} =>
          stopResult = "err" /\ sdErr # NoErr
    /\ finalStatus \notin {NotFetched, "TERMINATED"} =>
          stopResult = "err" /\ sdErr # NoErr
    /\ stopResult = "err" => sdErr # NoErr /\ sdPc = "done"

\* C2 witness: a stop that succeeded after a poll that was not DONE.
C2_Witness == stopResult = "ok" /\ pollsSent >= 2

\* C3: the client's own timeout and the caller's cancellation are surfaced
\* as two distinct, explicitly labeled error conditions: a cancellation is
\* not reported under the label of the timeout, and neither is reported
\* under the label of a failed status request.
C3_TimeoutAndCancelDistinct ==
    (sdPc = "done" /\ waitEnd \in {"ctxDone", "pollError"}) =>
        /\ sdErr.cause = "Canceled" => sdErr.label # TimeoutLabel
        /\ sdErr.cause \in {"Canceled", "DeadlineExceeded"} => sdErr.label # PollLabel

\* C4: the polling loop always terminates and never ends silently: a wait
\* that the context ended returns an error wrapping the context's error,
\* which is DeadlineExceeded (not before a deadline has passed) unless the
\* caller cancelled first; every wait that did not see DONE returns a
\* non-nil error; and every wait ends.
C4_WaitTerminates ==
    /\ [](waitEnd = "ctxDone" =>
            /\ sdErr # NoErr
            /\ sdErr.cause = waitCtx
            /\ sdErr.cause \in {"DeadlineExceeded", "Canceled"}
            /\ (callerCtx # "Canceled" => sdErr.cause = "DeadlineExceeded")
            /\ (sdErr.cause = "DeadlineExceeded" =>
                    \/ snow >= waitDeadline
                    \/ callerDeadline # 0 /\ snow >= callerDeadline))
    /\ [](waitEnd \in {"ctxDone", "pollError", "opFailed"} => sdErr # NoErr)
    /\ (InWait ~> ~InWait)

\* C4 witness: the wait ended by the timeout after polls that were not DONE.
C4_Witness ==
    /\ waitEnd = "ctxDone"
    /\ sdErr.cause = "DeadlineExceeded"
    /\ callerDeadline = 0
    /\ pollsSent >= 2

\* C5: ScaleDown on an instance fetched as TERMINATED or STOPPING sends no
\* stop request (and no poll) and returns success, every time it is called.
C5_AlreadyStoppedNoop ==
    firstStatus \in {"TERMINATED", "STOPPING"} =>
        /\ sdPc = "done"
        /\ sdErr = NoErr
        /\ stopSent = 0
        /\ pollsSent = 0
        /\ stopResult = ""

\* C5 witness: the second of two ScaleDown calls finds the instance STOPPING.
C5_Witness == sdCalls = 2 /\ firstStatus = "STOPPING" /\ sdPc = "done"

\* ---- orchestration loop
\* The services of worker w's tick that the range loop has reached.
Reached(w) == DOMAIN rates[w] \ todo[w]

\* The services ScaleDown was invoked for in worker w's tick.
ScaledSet(w) == {scaled[w][i] : i \in 1..Len(scaled[w])}

\* Router name n passes the allow-list: no list, an empty list, or n is on it.
PassesAllowList(n) ==
    \/ ~routerFilter.present
    \/ routerFilter.names = {}
    \/ n \in routerFilter.names

\* Service s of worker w's tick is to be scaled down.
Eligible(w, s) ==
    /\ s \in DOMAIN s2r[w]
    /\ PassesAllowList(s2r[w][s])
    /\ rates[w][s] < threshold

\* C6: within a tick ScaleDown is invoked for a service if and only if its
\* router was resolved, the router passes the allow-list and the service's
\* perMinuteRate is strictly below the threshold; once per such service.
C6_ScaleDownIff ==
    \A w \in Workers :
        /\ \A s \in Reached(w) : (s \in ScaledSet(w)) <=> Eligible(w, s)
        /\ ScaledSet(w) \subseteq Reached(w)
        /\ Len(scaled[w]) = Cardinality(ScaledSet(w))

\* C6 witness: a finished tick in which one service at exactly the threshold
\* was left alone and another below it was scaled down.
C6_Witness ==
    \E w \in Workers :
        /\ wpc[w] = "send"
        /\ \E s, t \in DOMAIN s2r[w] :
              /\ rates[w][s] = threshold
              /\ PassesAllowList(s2r[w][s])
              /\ s \notin ScaledSet(w)
              /\ rates[w][t] < threshold
              /\ t \in ScaledSet(w)

\* C7: an error of one service's ScaleDown never aborts the tick: after a
\* failed ScaleDown the worker is still inside the tick, the services not yet
\* reached are still to come, and the tick that reaches its end has
\* evaluated every service of the scrape (a panic apart).
C7_ErrorDoesNotAbortTick ==
    \A w \in Workers :
        /\ (failed[w] # {} /\ ~panicked[w]) => wpc[w] \in {"loop", "scaling", "send"}
        /\ (wpc[w] = "send") =>
              /\ todo[w] = {}
              /\ \A s \in DOMAIN rates[w] : (s \in ScaledSet(w)) <=> Eligible(w, s)

\* C7 witness: a finished tick whose first ScaleDown failed and whose second
\* ScaleDown was still made.
C7_Witness ==
    \E w \in Workers :
        /\ wpc[w] = "send"
        /\ Len(scaled[w]) = 2
        /\ scaled[w][1] \in failed[w]

\* C8: a panic during a tick is recovered and the loop continues with the
\* next tick: the worker that recovered a panic has not ended.
C8_PanicLoopContinues ==
    \A w \in Workers : panicked[w] => wpc[w] # "exited"

\* C9: after Stop() the worker starts no further tick: no tick is taken
\* from the ticker by a worker whose context is cancelled.
C9_NoTickAfterStop ==
    [][\A w \in Workers :
          (wctx[w] /\ wpc[w] = "select") => ~(wTick[w] /\ ~wTick'[w] /\ ticks' = ticks + 1)]_vars

\* A worker goroutine that has started and not ended.
Running(w) == wpc[w] \notin {"none", "exited"}

\* C10: at most one worker is running, and every running worker is the one
\* Stop() cancels, also after Provide() was called more than once.
C10_OneCancellableWorker ==
    /\ Cardinality({w \in Workers : Running(w)}) <= 1
    /\ Cardinality({w \in Workers : wpc[w] \in {"loop", "scaling", "send"}}) <= 1
    /\ \A w \in Workers : Running(w) => pCancel = w

\* C11: the orchestration loop never scales up: on no tick does it invoke
\* ScaleUp (or anything but ScaleDown) on the cloud service.
C11_NeverScalesUp == cloudOps \subseteq {"ScaleDown"}

\* C11 witness: a finished tick that scaled one service down and left a
\* monitored service with a rate above the threshold alone.
C11_Witness ==
    \E w \in Workers :
        /\ wpc[w] = "send"
        /\ cloudOps = {"ScaleDown"}
        /\ \E s \in DOMAIN s2r[w] :
              PassesAllowList(s2r[w][s]) /\ rates[w][s] > threshold

\* C12: GetToken sends a token-endpoint request only when the cache is not
\* valid (a valid cached token is returned without a request), and it never
\* hands out a cached token whose expiry has passed, also when the cache is
\* read without the lock while a refresh writes the new token and expiry.
C12_ValidCacheNoStaleToken ==
    /\ \A c \in Callers : tpc[c] = "waitResp" => ~TokenValid(tmToken, tmExpiresAt, tnow)
    /\ ~staleHandout

\* The callers whose token-endpoint request is outstanding or whose accepted
\* answer is being stored.
Refreshing == {c \in Callers : tpc[c] \in {"waitResp", "store"}}

\* C13: at every moment at most one token refresh is outstanding, and it is
\* the refresh of the caller holding the mutex, whether refreshes succeed or
\* fail.
C13_OneOutstandingRefresh ==
    /\ Cardinality(Refreshing) <= 1
    /\ \A c \in Refreshing : mu = c

\* C13 witness: after a failed exchange one caller's request is outstanding
\* while another caller waits for the mutex.
C13_Witness ==
    /\ tokFails >= 1
    /\ \E c, d \in Callers : c # d /\ tpc[c] = "waitResp" /\ tpc[d] = "lock"

\* Caller c's exchange ends in this step: its answer is in answer'.
ExchangeEnds(c) == tpc[c] = "waitResp" /\ tpc'[c] # "waitResp"

\* The step rejects the answer: caller c gets an error and no token, the
\* cache and the expiry are left as they were, the mutex is released.
RejectedStep(c) ==
    /\ tpc'[c] = "done"
    /\ tret'[c].err # "none" /\ tret'[c].tok = ""
    /\ tmToken' = tmToken /\ tmExpiresAt' = tmExpiresAt /\ stores' = {}
    /\ mu' = 0

\* The step accepts the answer: the token is to be cached with expiry
\* now + expires_in.
AcceptedStep(c) ==
    /\ tpc'[c] = "store"
    /\ fetchResp' = [tok |-> answer'.tok, expAt |-> tnow + answer'.expiresIn]
    /\ stores' = {"currentToken", "expiresAt"}

\* A caller that takes the mutex while the cache is not valid sends a fresh
\* request, whatever failed before; the accepted token and expiry are in the
\* cache when fetchToken returns it.
RetriedAndCached(c) ==
    /\ (tpc[c] = "lock" /\ tpc'[c] # "lock" /\ ~TokenValid(tmToken, tmExpiresAt, tnow))
          => (tpc'[c] = "waitResp" /\ tokReqs' = tokReqs + 1)
    /\ (tpc[c] = "store" /\ tpc'[c] = "done")
          => /\ tmToken = fetchResp.tok /\ tmExpiresAt = fetchResp.expAt
             /\ tret'[c] = [tok |-> fetchResp.tok, err |-> "none"]

\* C14: a failed token exchange (a non-2xx status or an empty access token)
\* gives an error and no token, leaves the cached token and expiry
\* unchanged and is not remembered; any 2xx answer carrying a non-empty
\* access token is accepted and cached with expiry = now + expires_in.
C14_ExchangeOutcome ==
    [][\A c \in Callers :
          /\ ExchangeEnds(c) =>
                IF answer'.status \notin 200..299 \/ answer'.tok = ""
                THEN RejectedStep(c)
                ELSE AcceptedStep(c)
          /\ RetriedAndCached(c)]_vars

\* C14 as the code has it: a status other than 200 (another 2xx included),
\* an undecodable body or an empty access token fails the exchange, with an
\* error, no token, the cache unchanged and nothing remembered; only a 200
\* answer with a non-empty access token is accepted and cached with
\* expiry = now + expires_in.
C14_ExchangeOutcome200 ==
    [][\A c \in Callers :
          /\ ExchangeEnds(c) =>
                IF answer'.kind # "json" \/ answer'.status # 200 \/ answer'.tok = ""
                THEN RejectedStep(c)
                ELSE AcceptedStep(c)
          /\ RetriedAndCached(c)]_vars

\* C14 witness: a second exchange, sent after a first one failed, was
\* answered 201 with an access token and failed as well, the cache untouched.
C14_Witness ==
    /\ tokReqs = 2
    /\ tokFails = 2
    /\ answer.kind = "json" /\ answer.status = 201 /\ answer.tok # ""
    /\ tmToken \in {NoToken, OldToken}
    /\ \E c \in Callers : tpc[c] = "done" /\ tret[c] = [tok |-> "", err |-> "status"]

\* C15: every request sent to the compute API carries the bearer token that
\* doRequest obtained from the Token Manager for it; when the token cannot
\* be obtained no request is sent and the operation fails with an error.
C15_BearerOnEveryRequest ==
    /\ lastReq # NoReq =>
          /\ lastReq.got \in BearerTokens
          /\ lastReq.auth = <<"Bearer", lastReq.got>>
    /\ reqsSent <= tokensGot
    /\ reqsSent >= stopSent + pollsSent
    /\ sdErr.kind = "token" => (sdPc = "done" /\ sdErr # NoErr /\ sdErr.label # "")

\* C15 witness: the token could not be obtained for a poll, after the first
\* fetch and the stop request had been sent with their tokens.
C15_Witness ==
    /\ sdErr.kind = "token"
    /\ sdErr.label = PollLabel
    /\ reqsSent = 2
    /\ tokensGot = 2
    /\ pollsSent = 0

\* C16: every non-2xx response of the compute API is translated into an
\* error, the provider's message when the error envelope parses and a
\* generic status error otherwise, and the operation that received it fails:
\* it is never taken for a successful result.
C16_Non2xxIsError ==
    (lastResp # NoResponse /\ lastResp.status \notin 200..299) =>
        /\ lastResp.err = (IF lastResp.envelope THEN "provider" ELSE "status")
        /\ sdPc = "done"
        /\ sdErr # NoErr
        /\ sdErr.kind = lastResp.err

\* C17: no operation is retried automatically: one ScaleDown call sends at
\* most one stop request and fetches the instance at most twice (before the
\* stop and after the wait), any failure ends the call at once with an
\* error, and within a tick ScaleDown is invoked at most once per service: a
\* failed service is attempted again on a later tick only.
C17_NoAutomaticRetry ==
    /\ stopSent <= 1
    /\ reqsSent - stopSent - pollsSent <= 2
    /\ waitEnd \in {"ctxDone", "pollError", "opFailed"} => sdPc = "done"
    /\ sdErr # NoErr => sdPc = "done"
    /\ sdPc # "idle" => \E w \in Workers : wpc[w] = "scaling"
    /\ sdCalls <= ticks * Cardinality(envServices)
    /\ \A w \in Workers :
          /\ Len(scaled[w]) = Cardinality(ScaledSet(w))
          /\ failed[w] \subseteq ScaledSet(w)
          /\ wpc[w] = "scaling" => cur[w] \notin failed[w]

\* C17 witness: in the second tick the service is scaled down again; the
\* stop request, sent once, was refused by the provider and the call ended.
C17_Witness ==
    /\ ticks = 2
    /\ sdCalls = 2
    /\ delivered = 1
    /\ sdPc = "done"
    /\ sdErr.kind = "provider"
    /\ stopSent = 1
    /\ pollsSent = 0

\* ---- metrics collector
\* The seconds between the baseline and the last call's reading of the clock.
Elapsed == mnow - prevTime

\* C18: a successful GetServiceRates reports, for every service of the
\* scrape, the cumulative total as perMinuteRate when the baseline it started
\* with is empty, and else (currentTotal - previousTotal) / elapsedSeconds * 60
\* (a service the baseline lacks has previousTotal 0); so when every total is
\* the one of the baseline, every rate is 0.
C18_RateFormula ==
    (mCalls > 0 /\ ~mErr) =>
        /\ Elapsed > 0
        /\ \A service \in DOMAIN mRates :
              /\ mRates[service].Total = fetched[service]
              /\ DOMAIN prevCounts = {} =>
                    mRates[service].PerMin = fetched[service]
              /\ DOMAIN prevCounts # {} =>
                    mRates[service].PerMin * Elapsed =
                        (fetched[service] - LastCount(prevCounts, service)) * 60
        /\ (DOMAIN prevCounts # {} /\ fetched = prevCounts) =>
              \A service \in DOMAIN mRates : mRates[service].PerMin = 0

\* A second scrape two seconds after the first: one total unchanged, the
\* other one higher.
C18_Witness ==
    /\ mCalls = 2 /\ ~mErr /\ Elapsed = 2
    /\ DOMAIN prevCounts = MetricServices
    /\ DOMAIN mRates = MetricServices
    /\ mRates["svc1"].PerMin = 0
    /\ mRates["svc2"].PerMin = 30

\* C19: once a scrape has succeeded, the baseline is exactly the counts of
\* the newest scrape that succeeded, with no entry of an older baseline left,
\* and the rate map a successful call returns has exactly the services of
\* its scrape.
C19_BaselineReplaced ==
    /\ mCalls > 0 => lastCounts = fetched
    /\ (mCalls > 0 /\ ~mErr) =>
          /\ DOMAIN mRates = DOMAIN fetched
          /\ lastTime = mnow
          /\ \A service \in DOMAIN prevCounts \ DOMAIN fetched :
                service \notin DOMAIN lastCounts

\* A service of the baseline is missing from the newest scrape, which has
\* another service.
C19_Witness ==
    /\ mCalls > 1 /\ ~mErr
    /\ "svc1" \in DOMAIN prevCounts
    /\ DOMAIN fetched = {"svc2"}
    /\ DOMAIN lastCounts = {"svc2"}
    /\ DOMAIN mRates = {"svc2"}

\* ---- mock cloud service
\* No call fails by configuration and the reset timer has not fired.
Undisturbed == failAfter = 0 /\ ~scaleErr /\ ~resetFired

\* The workers whose ScaleUp has returned and whose ScaleDown has not yet
\* stored.
BetweenUpAndDown ==
    {w \in MockWorkers :
        mpc[w] \in {"down", "downCheck", "downLock", "downLocked", "downRead"}}

\* C20: without failure injection and before any reset, whenever the mutex
\* is free the scale of the resource is the seed plus one for every worker
\* between its ScaleUp and its ScaleDown, so no update is lost; at most one
\* worker is inside a read-modify-write; and when every worker has finished
\* its pair the scale is the seed.
C20_BalancedPairsKeepScale ==
    Undisturbed =>
        /\ Resource \in DOMAIN scale
        /\ mmu = 0 => scale[Resource] = seed + Cardinality(BetweenUpAndDown)
        /\ Cardinality({w \in MockWorkers :
               mpc[w] \in {"upLocked", "upRead", "downLocked", "downRead"}}) <= 1
        /\ (\A w \in MockWorkers : mpc[w] = "done") =>
              /\ scale[Resource] = seed
              /\ \A w \in MockWorkers : mfail[w] = 0

\* Every worker has finished its pair on a resource seeded with scale 1.
C20_Witness ==
    /\ Undisturbed
    /\ seed = 1
    /\ \A w \in MockWorkers : mpc[w] = "done" /\ mcur[w] > seed
    /\ scale[Resource] = seed

\* The timer's goroutine is inside Reset.
ResetRunning == rpc \in {"locked", "cleared"}

\* The workers inside the read-modify-write of ScaleUp or ScaleDown.
InsideLocked ==
    {w \in MockWorkers : mpc[w] \in {"upLocked", "upRead", "downLocked", "downRead"}}

\* C21: the reset timer runs only when a reset duration is configured; the
\* step that ends its Reset leaves the map equal to the configured initial
\* scales, whatever ScaleUp, ScaleDown and SetScale did before; and while
\* Reset runs it holds the mutex, no worker is inside a read-modify-write, no
\* worker reads the map and nothing but Reset writes it.
C21_ResetRestoresUnderLock ==
    /\ [](rpc # "sleep" => resetAfter > 0)
    /\ [](ResetRunning => mmu = ResetTimer /\ InsideLocked = {})
    /\ [][(rpc # "done" /\ rpc' = "done") => scale' = initialScale]_vars
    /\ [][ResetRunning => (mcur' = mcur /\ (scale' # scale => rpc' # rpc))]_vars

\* Both workers have scaled the configured resource up, one of them from a
\* scale already above the seed, and the reset has put the seed back.
C21_Witness ==
    /\ rpc = "done"
    /\ seed = 1
    /\ initialScale = PutScale(NoScales, Resource, seed)
    /\ scale = initialScale
    /\ \A w \in MockWorkers : mpc[w] = "down"
    /\ \E w \in MockWorkers : mcur[w] > seed

\* C22: with s.failAfter = 0 no ScaleDown is failed by checkFailure; with
\* s.failAfter = K > 0 at most K ScaleDown calls get past checkFailure, and a
\* call is failed by it only once K calls have been counted.
C22_FailAfterInjection ==
    /\ failAfter = 0 => injected = {}
    /\ failAfter > 0 =>
          /\ Cardinality(passed) <= failAfter
          /\ injected # {} => Cardinality(passed) >= failAfter

\* ---- construction and API of the cloud service
\* C23: a GetCurrentScale whose fetch succeeded returns no error and a scale
\* that depends on the fetched status alone: 1 for RUNNING, PROVISIONING and
\* STAGING, 0 for TERMINATED, SUSPENDED, STOPPING and for every other string;
\* it returns an error only when the instance could not be fetched.
C23_ScaleFromStatus ==
    apiCall = "GetCurrentScale" =>
        /\ apiErr = "" =>
              apiScale = IF apiStatus \in {"RUNNING", "PROVISIONING", "STAGING"}
                            THEN 1 ELSE 0
        /\ apiErr # "" => apiErr = "failed to get instance" /\ apiScale = 0

\* A status outside the six named ones was fetched.
C23_Witness ==
    /\ apiCall = "GetCurrentScale"
    /\ apiStatus = "REPAIRING"
    /\ apiScale = 0
    /\ apiErr = ""
    /\ apiSent = 1

\* C24: every ScaleUp on the real service returns the not-implemented error
\* having sent no request, and the step changes nothing of the service, of
\* the last fetched status and scale, or of any other component.
C24_ScaleUpNotImplemented ==
    /\ [](apiCall = "ScaleUp" => apiErr = NotImplemented /\ apiSent = 0)
    /\ [][(apiCall' = "ScaleUp" /\ apiCalls' # apiCalls) =>
             /\ built' = built /\ cloudCfg' = cloudCfg
             /\ apiStatus' = apiStatus /\ apiScale' = apiScale
             /\ UNCHANGED nonSvcVars]_vars

\* ScaleUp called after GetCurrentScale reported a running instance.
C24_Witness ==
    /\ apiCall = "ScaleUp"
    /\ apiCalls = 2
    /\ apiErr = NotImplemented
    /\ apiStatus = "RUNNING"
    /\ apiScale = 1

\* C27: what cloud.NewService returns is the real service only for the
\* discriminator gcp and the mock only for mock, a construction without
\* error gives the service of the discriminator, and every other
\* discriminator gives an error and no service.
C27_FactoryByDiscriminator ==
    ctor = "cloud.NewService" =>
        /\ built.kind = "gcp" => cloudCfg.type = "gcp"
        /\ built.kind = "mock" => cloudCfg.type = "mock"
        /\ (cloudCfg.type \in {"gcp", "mock"} /\ buildErr = "") =>
              built.kind = cloudCfg.type
        /\ cloudCfg.type \notin {"gcp", "mock"} =>
              built = NoService /\ buildErr # ""
        /\ built = NoService <=> buildErr # ""

\* A discriminator that differs from gcp only in case, in a configuration
\* the real service would accept.
C27_Witness ==
    /\ ctor = "cloud.NewService"
    /\ cloudCfg.type = "GCP"
    /\ GcpNew(cloudCfg).err = ""
    /\ built = NoService
    /\ buildErr = "unknown cloud provider"

\* The configuration names no project and its credentials carry none.
ProjectMissing(c) == c.projectID = "" /\ CredsProject(c) = ""

\* C28: gcp.New returns an error and no service when the configuration is
\* nil or lacks the zone, the region, the credentials or the project, and a
\* service it returns has a project and a zone.
C28_RealServiceRequiresFields ==
    ctor = "gcp.New" =>
        /\ (\/ cloudCfg.nil
            \/ cloudCfg.zone = ""
            \/ cloudCfg.region = ""
            \/ cloudCfg.creds \in {"nil", "noSecret"}
            \/ ProjectMissing(cloudCfg)) =>
              built = NoService /\ buildErr # ""
        /\ built = NoService <=> buildErr # ""
        /\ built # NoService =>
              /\ built.kind = "gcp"
              /\ built.projectID # ""
              /\ built.zone # ""

\* The project comes from the service account file.
C28_Witness ==
    /\ ctor = "gcp.New"
    /\ cloudCfg.projectID = ""
    /\ built.kind = "gcp"
    /\ built.projectID = "account-project"
    /\ built.zone = "zone-a"
    /\ buildErr = ""

\* ---- router filter and snapshots of the loop
\* The services of worker w's tick whose router was resolved and whose rate
\* is under the threshold: whether ScaleDown is invoked for them is the
\* filter's decision.
FilterDecides(w) ==
    {s \in Reached(w) \cap DOMAIN s2r[w] : rates[w][s] < threshold}

\* C25: without a router filter, or with one whose list of names is empty,
\* every router is monitored; with names listed a router is monitored if and
\* only if one of them is equal to its name, case included.
C25_RouterFilterExact ==
    \A w \in Workers : \A s \in FilterDecides(w) :
        /\ (~routerFilter.present \/ routerFilter.names = {}) => s \in ScaledSet(w)
        /\ (routerFilter.present /\ routerFilter.names # {}) =>
              (s \in ScaledSet(w) <=> \E n \in routerFilter.names : n = s2r[w][s])

\* With the allow-list {"web"}, the service of router "web" was scaled down
\* and the one of router "Web" was not.
C25_Witness ==
    /\ routerFilter.present /\ routerFilter.names = {"web"}
    /\ \E w \in Workers : \E s, t \in FilterDecides(w) :
          /\ s2r[w][s] = "web" /\ s \in ScaledSet(w)
          /\ s2r[w][t] = "Web" /\ t \notin ScaledSet(w)

\* C26: a tick whose fetch succeeded goes on until its snapshot is sent, the
\* send delivers exactly one snapshot, and a tick whose fetch failed leaves
\* the worker at the select with nothing delivered.
C26_OneSnapshotPerTick ==
    [][\A w \in Workers :
          /\ wpc[w] \in {"loop", "scaling"} => wpc'[w] \in {"loop", "scaling", "send"}
          /\ wpc[w] = "send" =>
                \/ wpc'[w] = "send" /\ delivered' = delivered
                \/ wpc'[w] = "select" /\ delivered' = delivered + 1
          /\ (wpc[w] = "select" /\ wpc'[w] = "select") => delivered' = delivered]_vars

\* ---- construction of the provider
\* C29: New rejects a window text that is no duration and, outside test
\* mode, a window under one minute; Init rejects a negative threshold; a
\* rejection is the error the call returns, and no worker is started from a
\* configuration New or Init rejected.
C29_ConfigValidation ==
    /\ prov # "none" =>
          (prov = "rejectedNew" <=>
              \/ provCfg.nil
              \/ provCfg.WindowSize \in {"", "5"}
              \/ provCfg.WindowSize \in {"-2m", "30s"} /\ ~provCfg.testMode
              \/ ~provCfg.cloudOk)
    /\ prov \in {"ready", "rejectedInit"} =>
          (prov = "rejectedInit" <=> provCfg.TrafficThreshold < 0)
    /\ prov \in {"rejectedNew", "rejectedInit"} <=> provErr # ""
    /\ prov # "ready" => provWorkers = 0

\* A window of 30 seconds passed New in test mode and Init rejected the
\* negative threshold.
C29_Witness ==
    /\ provCfg.WindowSize = "30s" /\ provCfg.testMode
    /\ provCfg.TrafficThreshold < 0
    /\ prov = "rejectedInit"
    /\ provErr = "traffic threshold must be non-negative"
    /\ provWorkers = 0

\* ---- the scrape
\* What the line adds to the count of its service: its value, when it is a
\* line of the metric with a service label, a code label that is 200 or
\* absent, and a number as value.
Counted(l) ==
    l.metric /\ l.service # <<>> /\ l.code \in {"200", "absent"} /\ l.numeric

RECURSIVE CountedSum(_, _)
CountedSum(n, service) ==
    IF n = 0 THEN 0
    ELSE CountedSum(n - 1, service) +
         (IF Counted(scrapeBody[n]) /\ scrapeBody[n].service = service
             THEN scrapeBody[n].value ELSE 0)

\* C30: parseMetricLine returns the service and the value of a line of the
\* metric that has a service label, a numeric value and a code label that is
\* 200 or absent, and ("", 0, false) for every other line of the metric; the
\* map holds, for each service with such lines, the sum of their values.
C30_ScrapeAccumulates ==
    /\ scanPos > 0 /\ scrapeBody[scanPos].metric =>
          IF Counted(scrapeBody[scanPos])
             THEN /\ lastParse.ok
                  /\ lastParse.serviceName = scrapeBody[scanPos].service
                  /\ lastParse.count = scrapeBody[scanPos].value
             ELSE lastParse = FailedParse
    /\ DOMAIN serviceCounts =
          {scrapeBody[i].service : i \in {j \in 1..scanPos : Counted(scrapeBody[j])}}
    /\ \A service \in DOMAIN serviceCounts :
          serviceCounts[service] = CountedSum(scanPos, service)

\* ---- router lookup and cloud identifier
\* The lookup returned an error: no response, no JSON, or a usedBy that is
\* missing, not an array or empty.
LookupFailed(serviceInfo) ==
    \/ serviceInfo.kind # "json"
    \/ ~serviceInfo.hasUsedBy
    \/ Len(serviceInfo.usedBy) = 0

\* C31: the router of a service is the first entry of the usedBy list the
\* proxy returned for it; a service whose lookup failed, or whose usedBy is
\* missing or empty, is skipped: it gets no router, ScaleDown is not invoked
\* for it, the worker stays in the tick, and the tick that ends has reached
\* every service of the scrape and scaled down every eligible one.
C31_FirstUsedByOrSkipped ==
    \A w \in Workers :
        /\ (looked[w].service # "" /\ LookupFailed(looked[w].answer)) =>
              /\ looked[w].service \notin DOMAIN s2r[w]
              /\ looked[w].service \notin ScaledSet(w)
              /\ ~panicked[w]
              /\ wpc[w] \in {"loop", "send"}
        /\ (looked[w].service # "" /\ ~LookupFailed(looked[w].answer)
               /\ looked[w].answer.usedBy[1] # NotAString) =>
              /\ looked[w].service \in DOMAIN s2r[w]
              /\ s2r[w][looked[w].service] = looked[w].answer.usedBy[1]
        /\ \A s \in Reached(w) \ DOMAIN s2r[w] : s \notin ScaledSet(w)
        /\ wpc[w] = "send" =>
              /\ Reached(w) = DOMAIN rates[w]
              /\ \A s \in DOMAIN s2r[w] : (s \in ScaledSet(w)) <=> Eligible(w, s)

\* C31 witness: a finished tick in which the lookup of a service under the
\* threshold failed and the service reached after it, whose usedBy had two
\* entries, was scaled down.
C31_Witness ==
    \E w \in Workers :
        /\ wpc[w] = "send"
        /\ \E s \in DOMAIN rates[w] \ DOMAIN s2r[w] : rates[w][s] < threshold
        /\ Len(looked[w].answer.usedBy) = 2
        /\ looked[w].service \in ScaledSet(w)

\* Identifier id is service name s up to its first '@' (all of s without one).
TruncatedAtFirstAt(id, s) ==
    /\ \A i \in 1..Len(Spelling(id)) : Spelling(id)[i] # "@"
    /\ Len(Spelling(id)) <= Len(Spelling(s))
    /\ SubSeq(Spelling(s), 1, Len(Spelling(id))) = Spelling(id)
    /\ \/ Len(Spelling(id)) = Len(Spelling(s))
       \/ Spelling(s)[Len(Spelling(id)) + 1] = "@"

\* C33: ScaleDown is handed the service name truncated at its first '@';
\* services that share an identifier are decided one by one, each on its own
\* rate, so the identifier is handed to ScaleDown once for each of them that
\* is eligible, whatever the rates of the others.
C33_SharedIdentifier ==
    \A w \in Workers :
        /\ Len(scaledIds[w]) = Len(scaled[w])
        /\ \A i \in 1..Len(scaled[w]) : TruncatedAtFirstAt(scaledIds[w][i], scaled[w][i])
        /\ \A s \in Reached(w) :
              (\E i \in 1..Len(scaled[w]) : scaled[w][i] = s) <=> Eligible(w, s)
        /\ \A id \in ServiceNames :
              Cardinality({i \in 1..Len(scaledIds[w]) : scaledIds[w][i] = id})
                 = Cardinality({s \in Reached(w) :
                                   Eligible(w, s) /\ TruncatedAtFirstAt(id, s)})

\* C33 witness: a finished tick that invoked ScaleDown twice on the
\* identifier "a", once for each of the two services that share it.
C33_Witness ==
    \E w \in Workers :
        /\ wpc[w] = "send"
        /\ scaledIds[w] = <<"a", "a">>
        /\ Cardinality(ScaledSet(w)) = 2

\* ---- negative rates
\* C32: a service whose total is lower than the baseline's gets the negative
\* rate (currentTotal - previousTotal) / elapsedSeconds * 60, not clamped;
\* the tick ranges over the rates as the collector returned them, and a
\* negative rate is under every threshold >= 0: ScaleDown is invoked for the
\* service once the loop has reached it, its router resolved and monitored.
C32_NegativeRateScalesDown ==
    \A w \in Workers : \A s \in DOMAIN rates[w] :
        /\ s \in DOMAIN mRates /\ rates[w][s] = mRates[s].PerMin
        /\ (prevCounts # NoCounts /\ fetched[s] < LastCount(prevCounts, s)) =>
              /\ rates[w][s] < 0
              /\ rates[w][s] * (mnow - prevTime) = (fetched[s] - LastCount(prevCounts, s)) * 60
        /\ (rates[w][s] < 0 /\ s \in Reached(w) /\ s \in DOMAIN s2r[w]
               /\ PassesAllowList(s2r[w][s])) => s \in ScaledSet(w)

\* C32 witness: with threshold 0, a finished tick scaled down a service
\* whose total had fallen since the tick before.
C32_Witness ==
    \E w \in Workers :
        /\ wpc[w] = "send"
        /\ threshold = 0
        /\ ticks = 2
        /\ \E s \in DOMAIN rates[w] :
              /\ fetched[s] < LastCount(prevCounts, s)
              /\ rates[w][s] < 0
              /\ s \in ScaledSet(w)

\* ---- ScaleDown and the worker's cancellation
\* C34: the ScaleDown calls of a tick are not bound to the worker's
\* cancellation.  The context of a call is never done and has no deadline;
\* no call fails with the cancellation; a wait that its context ended was
\* ended by the client's own timeout, not before its deadline; Stop() leaves
\* the call in flight as it is; and a worker whose context is cancelled
\* while its tick is in progress still invokes ScaleDown for the eligible
\* service it reaches.
C34_ScaleDownOutlivesStop ==
    /\ [](sdPc # "idle" => callerCtx = "none" /\ callerDeadline = 0)
    /\ [](sdErr.cause # "Canceled" /\ waitCtx # "Canceled")
    /\ [](waitEnd = "ctxDone" =>
            sdErr.cause = "DeadlineExceeded" /\ snow >= waitDeadline)
    /\ [][wctx' # wctx => UNCHANGED stopVars]_vars
    /\ [][\A w \in Workers :
            (wctx[w] /\ wpc[w] = "loop" /\ todo'[w] # todo[w] /\ ~panicked'[w]) =>
               \A s \in todo[w] \ todo'[w] :
                  (s \in DOMAIN s2r'[w] /\ rates[w][s] < threshold) =>
                      /\ wpc'[w] = "scaling"
                      /\ scaled'[w] = Append(scaled[w], s)]_vars

\* C34 witness: Stop() was called during the second tick; the ScaleDown the
\* tick then made sent its stop request and was ended by the client's
\* timeout.
C34_Witness ==
    \E w \in Workers :
        /\ wctx[w]
        /\ ticks = 2
        /\ wpc[w] = "scaling"
        /\ sdCalls = 2
        /\ sdPc = "done"
        /\ stopSent = 1
        /\ waitEnd = "ctxDone"
        /\ sdErr.cause = "DeadlineExceeded"

\* ---- the first poll of the wait
\* When the stop call returned and waitForOperation started.
WaitStartedAt == waitDeadline - cfgTimeout

\* C35: after the stop call returned no operation-status request is sent
\* before one full poll interval has passed, and no wait ends as done before
\* then; with a timeout shorter than the poll interval and a caller's
\* context that is not done, a wait that has ended sent no poll at all and
\* StopInstance failed with an error that wraps the deadline's, under the
\* timeout's label whenever the select took the context's case.
C35_NoPollBeforeInterval ==
    /\ pollsSent > 0 => snow >= WaitStartedAt + cfgPoll
    /\ (waitDeadline # 0 /\ snow < WaitStartedAt + cfgPoll) =>
          (waitEnd # "done" /\ stopResult # "ok")
    /\ (waitDeadline # 0 /\ cfgTimeout < cfgPoll /\ callerCtx = "none") =>
          /\ pollsSent = 0
          /\ stopResult # "ok"
          /\ sdPc = "done" =>
                /\ stopResult = "err"
                /\ sdErr.cause = "DeadlineExceeded"
                /\ waitEnd = "ctxDone" => sdErr.label = TimeoutLabel

\* C35 witness: with a timeout shorter than the poll interval the stop call
\* returned, the wait was ended by the timeout and no poll was sent.
C35_Witness ==
    /\ cfgTimeout < cfgPoll
    /\ callerCtx = "none"
    /\ stopSent = 1
    /\ waitEnd = "ctxDone"
    /\ sdErr.label = TimeoutLabel
    /\ sdErr.cause = "DeadlineExceeded"
    /\ pollsSent = 0
    /\ sdPc = "done"

\* ---- the baseline of the collector
\* C36: the first-run approximation depends on the baseline being empty, not
\* on the call being the first: a successful call that starts with an empty
\* baseline reports the cumulative total of every service as its rate, also
\* when an earlier scrape succeeded; and a successful scrape without
\* services leaves an empty baseline.
C36_EmptyBaselineIsFirstRun ==
    (mCalls > 0 /\ ~mErr) =>
        /\ DOMAIN mRates = DOMAIN fetched
        /\ prevCounts = NoCounts =>
              \A service \in DOMAIN fetched : mRates[service].PerMin = fetched[service]
        /\ fetched = NoCounts => lastCounts = NoCounts

\* C36 witness: a scrape that followed a successful scrape without services
\* reported the total 2 as the rate, two seconds after the baseline was
\* taken (the rate of the difference would be 60).
C36_Witness ==
    /\ ~mErr
    /\ prevTime > 0
    /\ prevCounts = NoCounts
    /\ mnow - prevTime = 2
    /\ \E service \in DOMAIN fetched :
          fetched[service] = 2 /\ mRates[service].PerMin = 2

\* C37: a call whose fetch fails returns an error and no rates and leaves
\* the baseline counts and the baseline time as they were; the next
\* successful call takes its rates over the whole time since the baseline,
\* which is the last successful scrape.
C37_FailedFetchKeepsBaseline ==
    [][mCalls' # mCalls =>
          IF mErr'
          THEN /\ mRates' = NoCounts
               /\ lastCounts' = lastCounts
               /\ lastTime' = lastTime
          ELSE /\ lastTime' = mnow'
               /\ lastCounts' = fetched'
               /\ \A service \in DOMAIN fetched' :
                     /\ mRates'[service].Duration = mnow' - lastTime
                     /\ (lastCounts # NoCounts) =>
                           mRates'[service].PerMin * (mnow' - lastTime) =
                              (fetched'[service] - LastCount(lastCounts, service)) * 60]_vars

\* C37 witness: after a failed fetch, a successful call reported a rate over
\* the three seconds since the scrape before the failure.
C37_Witness ==
    /\ mCalls = 3
    /\ ~mErr
    /\ prevTime = 1
    /\ mnow = 4
    /\ prevCounts # NoCounts
    /\ \E service \in DOMAIN fetched :
          /\ mRates[service].Duration = 3
          /\ mRates[service].PerMin = 20

\* ---- the call counter and the scales of the mock
\* C38: with s.failAfter = K > 0 at most K ScaleDown calls get past
\* checkFailure under every interleaving of the callers, and the counter
\* holds the number of calls that went through checkFailure: no increment
\* is lost.
C38_AtomicCallCounter ==
    /\ failAfter > 0 => Cardinality(passed) <= failAfter
    /\ opCount = Cardinality(passed \cup injected)

\* A worker's ScaleDown leaves its read-modify-write in this step.
ScaleDownEnds(w) ==
    mpc[w] \in {"downLocked", "downRead"} /\ mpc'[w] = "done"

\* C39: from scales that are not negative, no interleaving of ScaleUp,
\* ScaleDown and the timer's reset makes a scale negative: a ScaleDown either
\* takes 1 from a scale above 0 or leaves the map as it is, which it does at
\* scale 0 and for a resource the map does not hold; it never adds an entry.
C39_ScaleNeverNegative ==
    /\ [](\A name \in DOMAIN scale : scale[name] >= 0)
    /\ [](\A name \in DOMAIN initialScale : initialScale[name] >= 0)
    /\ [][\A w \in MockWorkers :
            /\ ScaleDownEnds(w) =>
                  \/ /\ Resource \in DOMAIN scale
                     /\ scale[Resource] > 0
                     /\ scale' = PutScale(scale, Resource, scale[Resource] - 1)
                  \/ /\ Resource \notin DOMAIN scale \/ scale[Resource] = 0
                     /\ scale' = scale
            /\ (mpc[w] \in {"down", "downCheck", "downLock", "downLocked", "downRead"}
                   /\ mpc'[w] # mpc[w]) => DOMAIN scale' = DOMAIN scale]_vars

\* C39 witness: every ScaleUp failed with the configured error, and both
\* ScaleDown calls found the resource at scale 0 and left it there.
C39_Witness ==
    /\ seed = 0
    /\ ~resetFired
    /\ passed = MockWorkers
    /\ \A w \in MockWorkers : mpc[w] = "done" /\ mcur[w] = 0
    /\ scale = PutScale(NoScales, Resource, 0)

\* ---- the stop request of ScaleDown
\* The stop request of the call could not be put on the wire: the token for
\* it could not be obtained or the caller's context was done.
StopNotSendable ==
    /\ sdPc = "done"
    /\ stopResult = "err"
    /\ sdErr.wrap = "stop" /\ sdErr.label = "request"
    /\ sdErr.kind \in {"token", "transport"}
    /\ lastReq.op # "stop"

\* C40: ScaleDown sends a stop request only for an instance fetched with a
\* status other than TERMINATED and STOPPING, and never more than one; for
\* every such status, SUSPENDED and the statuses the code does not name
\* included, it calls StopInstance, which sends the request unless it cannot
\* be sent; and the call then succeeds only if the instance fetched after
\* the wait is TERMINATED.
C40_StopRequestIffNotStopped ==
    /\ stopSent <= 1
    /\ stopSent = 1 => firstStatus \in InstanceStatuses \ {"TERMINATED", "STOPPING"}
    /\ firstStatus \in {"TERMINATED", "STOPPING"} => (stopSent = 0 /\ sdErr = NoErr)
    /\ firstStatus \in InstanceStatuses \ {"TERMINATED", "STOPPING"} =>
          /\ stopSent = 1 \/ sdPc = "stop" \/ StopNotSendable
          /\ (sdPc = "done" /\ sdErr = NoErr) =>
                (stopSent = 1 /\ stopResult = "ok" /\ finalStatus = "TERMINATED")
          /\ (sdPc = "done" /\ finalStatus \notin {NotFetched, "TERMINATED"}) =>
                sdErr # NoErr

\* C40 witness: an instance fetched as SUSPENDED was sent a stop request and
\* the call succeeded, the instance being TERMINATED after the wait.
C40_Witness ==
    /\ firstStatus = "SUSPENDED"
    /\ stopSent = 1
    /\ sdPc = "done"
    /\ sdErr = NoErr
    /\ finalStatus = "TERMINATED"

====
